---------------------------- MODULE Spec2Model ----------------------------
(***************************************************************************)
(* State-machine model of the BCM2835 HAL / runtime (rpi-devenv).          *)
(*                                                                         *)
(* Sections:                                                               *)
(*   1. critical section primitive        (src/src/critical_section.rs)    *)
(*   2. system time driver + IRQ dispatch (src/src/system_time/driver.rs,  *)
(*                                         src/src/interrupt.rs)           *)
(*   3. SystemTimeDriver::now             (src/src/system_time/driver.rs)  *)
(*   4. executor main loop                (src/src/executor.rs)            *)
(*   5. nested critical sections          (src/src/critical_section.rs)    *)
(*   6. GPIO pin ownership                (src/src/gpio.rs)                *)
(*                                                                         *)
(* One CPU, one core.  The CPU context is a call stack `frames`; the       *)
(* hardware (free-running counter, compare channels) moves on its own.     *)
(***************************************************************************)
EXTENDS Naturals, Integers, Sequences, FiniteSets, TLC

\* ------------------------------------------------------------------ bounds
\* Highest value the free-running counter reaches in the model.
MaxTime == 6
\* Number of values of the low counter word CLO (2^32 in the hardware): the
\* compare channels match on clk % LoMod, the high word CHI is clk \div LoMod.
LoMod == 3

VARIABLES
    cpsr_i,     \* CPSR I-bit: TRUE = IRQs masked
    clk,        \* the 64-bit free-running counter CHI:CLO
    cmp,        \* compare registers, handle id 0 -> C1, 1 -> C3
    csr,        \* SYSTEM_TIME_CS match bits, 0 -> M1 (bit 1), 1 -> M3 (bit 3)
    slot,       \* DRIVER.c1 / DRIVER.c3 : None or AlarmState
    frames,     \* CPU call stack above the idle main task (top = last)
    halted,     \* a panic happened: the panic handler loops for ever
    handles,    \* alarm handles the client obtained from allocate_alarm
    lastRet,    \* ghost: outcome of the latest task-level set_alarm per handle
    cbSince,    \* ghost: callback invocations since that call stored its deadline
    armFar,     \* ghost: that deadline was more than LoMod ticks ahead
    lastCb,     \* ghost: the callback invocation made by the latest step
    lastCall,   \* ghost: the set_alarm return made by the latest step
    \* -- now() read step by step
    nowPc,      \* position inside now(): "idle", "lo", "check"
    nowHi,      \* local hi
    nowLo,      \* local lo
    nowAt,      \* ghost: [call, lo] counter value at the call and at the CLO read
    nowRet,     \* ghost: [ev, val, prev, call, lo, ret] the latest result of now()
    \* -- executor
    epc,            \* position of Executor::run
    WORK_SIGNALED,  \* the AtomicBool
    runQueue,       \* the raw executor has a woken task to poll
    irqLine,        \* a peripheral interrupt is pending
    restoreState,   \* RawRestoreState held by critical_section::with
    batch,          \* tasks taken from the run queue by the running poll()
    slept,          \* ghost: the running iteration executed WFI
    isrPc,          \* position of the interrupt handler over the executor
    irqCount,       \* interrupts raised so far
    \* -- critical sections
    csStack,    \* restore states of the open critical sections, per context
    csOuter,    \* ghost: I-bit before the outermost acquire, per context
    csExit,     \* ghost: latest outermost release [ev, before, after]
    csIrq,      \* ghost: an IRQ was taken inside a critical section
    csIsr,      \* the code running is an interrupt handler
    csPc,       \* per context: inside acquire(), between the mrs and the mask
    csRead,     \* per context: the CPSR I-bit acquire() read
    \* -- GPIO pin ownership
    lower,      \* GPIO_SET.lower, as the set of its 1 bits
    upper,      \* GPIO_SET.upper, as the set of its 1 bits
    tokens,     \* live Pin tokens per pin number
    fsel,       \* the function-select words
    lastGet,    \* ghost: the latest Pin::get [ev, pin, some, held]
    \* -- auxiliary peripherals: boot, Mini-UART
    bootPc,         \* position of first_stage: aux_setup, uart_setup, irq_setup, main
    auxEnables,     \* bits set in AUX_ENABLES
    enableIrqs,     \* IRQ numbers set in ENABLE_IRQS_1 / ENABLE_IRQS_2
    uartLive,       \* live MiniUart instances
    lastUartGet,    \* ghost: the latest MiniUart::get [ev, some, live]
    baudReg,        \* BAUDRATE_REG
    baud_rate,      \* MiniUart.baud_rate of the live instance
    lastBaud,       \* ghost: the latest set_baud_rate [ev, b, panicked, before]
    auxHalted,      \* a panic happened in the Mini-UART code
    ier,            \* bits set in the Mini-UART INTERRUPT_ENABLE_REG
    rxReady,        \* LINE_STATUS bit 0: a received byte waits in the FIFO
    gpioEvent,      \* a GPIO bank 0 event is pending (IRQ 49)
    READER_WAKER,   \* the waker cell of the reader: TRUE when a waker is stored
    futState,       \* the read future: none, new, pending, woken, ready
    \* -- GPIO event detection on one pin of bank 0
    detEnable,      \* a detect-enable bit of the pin is set
    detStatus,      \* the pin's bit of the event detect status register
    wakerSlot,      \* WAKER_SET[PIN]: 0 for None, else the id of the Detector
    det,            \* the live Detector, or None
    detCount,       \* Detectors created so far
    evOwn,          \* ghost: the pending event came after the live Detector armed
    lastDet,        \* ghost: the latest Ready of a Detector [ev, own]
    \* -- blocking Reader::read
    rxFifo,         \* receive FIFO of the Mini-UART, oldest byte first
    rxOverrun,      \* LINE_STATUS_REG bit 1
    rxSent,         \* bytes the line delivered so far
    rdPc,           \* idle, loop, done
    buf,            \* the caller's buffer
    count,          \* index of the for loop
    rdRet,          \* the result of read
    rdTaken,        \* ghost: bytes read from IO_REG during the call
    rdStatus,       \* ghost: the latest value of LINE_STATUS_REG the call read
    \* -- SPI FIFO entries
    lastEntry,      \* the latest call of to_entry [ev, slice, ms_bit_first, entry]
    \* -- SPI write
    words,          \* the bytes to write
    spiAsync,       \* the write is the WriteFut (TRUE) or the blocking call
    spiMsb,         \* CONTROL0 bit 6, out_most_significant_first
    spiPc,          \* idle, run, pending, done
    index,          \* chunks taken from words.chunks(3)
    txFifo,         \* entries the TX FIFO of the device received
    strayWrites,    \* writes of entries to addresses that are no TX register
    txIrq,          \* CONTROL1 bit 7 of the device
    \* -- serial boot: the host tool (bootcom) and the device's first stage
    firmware,       \* which first_stage the device runs: off, bin, crate
    devPc,          \* off, spin, ready, size, load, kernel
    hostPc,         \* wait, ready, payload, sent, aborted
    toHost,         \* bytes on the line from the device to the host
    toDev,          \* bytes on the line and in the receive FIFO of the device
    ready_buf,      \* host: let mut ready_buf = [0u8; 1]
    binary,         \* host: the contents of the binary file
    hostWire,       \* ghost: every byte the host wrote to the port
    binary_size_bytes, \* device: the four bytes of the size
    binary_size,    \* device: bytes still to load
    loaded,         \* device: the bytes stored from LOAD_ADDRESS on
    ffSent,         \* ghost: times the device sent 0xFF
    devReads,       \* ghost: bytes the device read
    glitched,       \* a stray byte was seen on the line to the host
    \* -- a WakerCell with set_waker and wake
    wslot,          \* the Option<Waker> in the cell: None or [task, data, id]
    clones,         \* wakers cloned into the cell so far
    invoked,          \* ghost: times each stored waker was invoked, by id
    lastW,          \* ghost: the latest call [op, before, waker, ret]
    \* -- the #[main] attribute macro
    lastMain,       \* the latest expansion [ev, args, item, result]
    \* -- from reset to Executor::run
    runPc,          \* reset, first_stage, main, run
    swapOld,        \* ghost: what the latest swap of WORK_SIGNALED returned
    swapped,        \* ghost: Executor::run did a swap
    pendedSince,    \* ghost: __pender was called after the latest swap
    released,       \* ghost: Executor::run left a critical section
    \* -- interrupt dispatch
    srcPending,     \* IRQ numbers whose source is pending in the controller
    dpc,            \* position of interrupt_handler: idle, basic, bank1, bank2, ret
    dk,             \* index in the source table of the bank, 0 before the word is read
    basic_pending,  \* local: the bits read from IRQ_BASIC_PENDING
    pending_irqs,   \* local: the bits read from IRQ_PENDING_1 / IRQ_PENDING_2
    hact,           \* the IRQ number whose handler runs, as a set; {} for none
    hcs,            \* restore states of the critical sections the handler has open
    calls,          \* ghost: handler invocations of this IRQ entry, by IRQ number
    wordRead,       \* ghost: the pending word read per bank in this IRQ entry
    reentered,      \* ghost: an IRQ was taken while interrupt_handler ran
    raises,         \* interrupts the sources raised so far
    \* -- the GPIO interrupt handlers over several pins
    detectEnable,   \* per pin: the detect-enable registers (1..6) with the pin's bit set
    detectStatus,   \* pins whose bit is set in the event detect status registers
    WAKER_SET,      \* per slot index: 0 for None, 1 for a stored waker
    lastGpioIsr,    \* ghost: the latest handler run [ev, bank, status, enable, wakers, woken]
    \* -- the async read_exact future
    exPc,           \* none, created, pending, ok, err
    exBuf,          \* the caller's buffer; 0 marks a position never written
    buf_iter,       \* elements of the buffer the iterator has yielded
    exTaken,        \* ghost: the bytes read from IO_REG by the future, in order
    exPendings,     \* ghost: polls of the future that returned Pending
    \* -- SPI transfer_in_place, blocking and async
    xfWords,        \* the buffer; a byte is i when never overwritten, 0 - k when
                    \* overwritten from the k-th entry read
    xfAsync,        \* the transfer is the TransferInPlaceFut (TRUE) or the blocking call
    xfPc,           \* idle, rx, tx, pending, write, wait, done
    tx_index,       \* TransferInPlaceFut.tx_index; index of the blocking loop
    rx_index,       \* TransferInPlaceFut.rx_index
    xfSent,         \* ghost: the entries written, [reg, slice], in order
    xfReads,        \* ghost: entries read from IO
    devTx,          \* TX FIFO of the device
    devRx,          \* RX FIFO of the device
    \* -- Mini-UART Reader and Writer halves
    controlReg,     \* EXTRA_CONTROL_REG, the set of its bits that are 1
    enableReg,      \* INTERRUPT_ENABLE_REG, the set of its bits that are 1
    readersLive,    \* Reader values that exist
    writersLive,    \* Writer values that exist
    readerCell,     \* reader.rs READER_WAKER: 0, or the task whose waker it holds
    WRITER_WAKER,   \* 0, or the task whose waker it holds
    txLevel,        \* bytes in the transmit FIFO
    rxAvail,        \* a byte is in the receive FIFO
    flushPc,        \* the blocking flush: idle or spinning
    lastHalf,       \* ghost: the operation of the last step and what it saw
    \* -- SPI configuration
    spiHeld,        \* a Spi1 value exists (AUX_ENABLES bit 1)
    spiConfig,      \* the Config given to Spi1::get
    cntl1,          \* the write of get through SPI1.add(CONTROL1): [addr, word],
                    \* word the set of bits that are 1
    in_ms_bit_first, \* the order transfer_in_place decodes with
    \* -- Pin::set_pull
    PULL_CONTROL,   \* the register: 0, 1 or 2
    PULL_SET,       \* the two words at PULL_SET_BASE, each the set of its bits that are 1
    pullPc,         \* idle, wait1, mask, wait2, clear, done
    pullPin,        \* PIN of the call
    pullSpins,      \* iterations of the running wait loop done
    pullLog         \* ghost: register writes and elapsed waits of the call, in order

auxVars == << bootPc, auxEnables, enableIrqs, uartLive, lastUartGet, baudReg,
             baud_rate, lastBaud, auxHalted, ier, rxReady, gpioEvent,
             READER_WAKER, futState >>
detVars == << detEnable, detStatus, wakerSlot, det, detCount, evOwn, lastDet >>
readVars == << rxFifo, rxOverrun, rxSent, rdPc, buf, count, rdRet, rdTaken, rdStatus >>
entryVars == << lastEntry >>
spiVars == << words, spiAsync, spiMsb, spiPc, index, txFifo, strayWrites, txIrq >>
bootVars ==
    << firmware, devPc, hostPc, toHost, toDev, ready_buf, binary, hostWire,
       binary_size_bytes, binary_size, loaded, ffSent, devReads, glitched >>
wakerVars == << wslot, clones, invoked, lastW >>
macroVars == << lastMain >>
runVars == << runPc, swapOld, swapped, pendedSince, released >>
xferVars == << xfWords, xfAsync, xfPc, tx_index, rx_index, xfSent, xfReads, devTx,
              devRx >>
halfVars == << controlReg, enableReg, readersLive, writersLive, readerCell,
              WRITER_WAKER, txLevel, rxAvail, flushPc, lastHalf >>
cfgVars == << spiHeld, spiConfig, cntl1, in_ms_bit_first >>
pullVars == << PULL_CONTROL, PULL_SET, pullPc, pullPin, pullSpins, pullLog >>
rexVars == << exPc, exBuf, buf_iter, exTaken, exPendings >>
gisrVars == << detectEnable, detectStatus, WAKER_SET, lastGpioIsr >>
irqVars == << srcPending, dpc, dk, basic_pending, pending_irqs, hact, hcs, calls,
             wordRead, reentered, raises >>
timerVars == << clk, cmp, csr, slot, frames, halted, handles,
                lastRet, cbSince, armFar, lastCb, lastCall >>
nowVars == << nowPc, nowHi, nowLo, nowAt, nowRet >>
execVars == << epc, WORK_SIGNALED, runQueue, irqLine, restoreState, batch, slept, isrPc, irqCount >>
csVars == << csStack, csOuter, csExit, csIrq, csIsr, csPc, csRead >>
gpioVars == << lower, upper, tokens, fsel, lastGet >>

vars == << cpsr_i, timerVars, nowVars, execVars, csVars, gpioVars, auxVars, detVars,
          readVars, entryVars, spiVars,
          bootVars,
          wakerVars,
          macroVars,
          runVars,
          irqVars,
          gisrVars,
          rexVars,
          xferVars,
          halfVars,
          cfgVars,
          pullVars >>

\* ------------------------------------------------- 1. critical section
\* Mutant of acquire: the I-bit is read but IRQs are never disabled.
acquireNoMask(i) == [restore |-> FALSE, i |-> i]

\* Mutant of release: IRQs are re-enabled whatever the restore state.
releaseAlways(restore_state, i) == FALSE

\* acquire(): read CPSR; if the I-bit is clear, disable IRQs and return true,
\* else return false.  Result: the restore state and the I-bit afterwards.
acquire(i) == [restore |-> ~i, i |-> TRUE]

\* release(restore_state): re-enable IRQs only if restore_state is true.
release(restore_state, i) == IF restore_state THEN FALSE ELSE i

\* ------------------------------------------------- 2. system time driver
Handles == {0, 1}
None == [none |-> TRUE]
NoEvent == [ev |-> FALSE]

\* AlarmState { timestamp, callback, ctx }; callback "noop" is AlarmState::null's.
AlarmState(t, cb) == [timestamp |-> t, callback |-> cb]

\* CHI and CLO as the hardware shows the counter.
CHI == clk \div LoMod
CLO == clk % LoMod

\* now(): ((hi as u64) << 32) | lo, of a consistent pair (see section on now()).
NowValue(hi, lo) == hi * LoMod + lo
now == NowValue(CHI, CLO)

\* `timestamp as u32`
Truncate(t) == t % LoMod

\* Source table of pending register 1, in table order: handle ids of the
\* handlers (bit 1 -> handler_c1 -> id 0, bit 3 -> handler_c3 -> id 1).
INTERRUPT_SOURCES1 == << 0, 1 >>

\* The IRQ line of the ARM: a compare match of an enabled source is pending
\* (setup() enables bits 1 and 3 of ENABLE_IRQS_1).
IrqAsserted == \E h \in Handles : csr[h]

Top == frames[Len(frames)]
Depth == Len(frames)
Pop == SubSeq(frames, 1, Len(frames) - 1)
SetTop(f) == [frames EXCEPT ![Len(frames)] = f]

\* A CPU step of the running context is possible: not panicked, and no
\* unmasked pending IRQ (which the core takes first).
CpuRuns == ~halted /\ (cpsr_i \/ ~IrqAsserted)

SaFrame(h, t) == [fn |-> "set_alarm", pc |-> "check1", h |-> h, ts |-> t,
                  restore |-> FALSE, creg |-> {}, pend |-> {}, k |-> 0,
                  cb |-> "noop", past |-> t <= now, stored |-> FALSE,
                  wrote |-> FALSE]
IsrFrame == [fn |-> "isr", pc |-> "read", h |-> 0, ts |-> 0,
             restore |-> FALSE, creg |-> {}, pend |-> {}, k |-> 0,
             cb |-> "noop", past |-> FALSE, stored |-> FALSE, wrote |-> FALSE]

InTask == Depth = 1 /\ Top.fn = "set_alarm"

\* Hardware: the counter advances by one; a channel whose compare value
\* equals the new low word raises its match bit.  (After a panic nothing
\* observes the counter any more.)
Tick ==
    /\ clk < MaxTime /\ ~halted
    /\ clk' = clk + 1
    /\ csr' = [h \in Handles |-> csr[h] \/ cmp[h] = (clk + 1) % LoMod]
    /\ lastCb' = NoEvent /\ lastCall' = NoEvent
    /\ UNCHANGED << cpsr_i, cmp, slot, frames, halted, handles,
                    lastRet, cbSince, armFar >>

\* Mutant of AllocResult: slot C3 is tried before slot C1.
AllocResultC3First ==
    IF slot[1] = None THEN 1
    ELSE IF slot[0] = None THEN 0
    ELSE 2

\* allocate_alarm(): first free slot, in one critical section; 2 stands for
\* the result None.
AllocResult ==
    IF slot[0] = None THEN 0
    ELSE IF slot[1] = None THEN 1
    ELSE 2

AllocateAlarm ==
    /\ frames = << >> /\ CpuRuns
    /\ LET id == AllocResult IN
        /\ slot' = IF id \in Handles THEN [slot EXCEPT ![id] = AlarmState(0, "noop")]
                   ELSE slot
        /\ handles' = IF id \in Handles THEN handles \cup {id} ELSE handles
        /\ lastCall' = [ev |-> FALSE, alloc |-> id]
    /\ cpsr_i' = release(acquire(cpsr_i).restore, acquire(cpsr_i).i)
    /\ lastCb' = NoEvent
    /\ UNCHANGED << clk, cmp, csr, frames, halted, lastRet, cbSince, armFar >>

\* set_alarm_callback(alarm, callback, ctx)
SetAlarmCallback(h) ==
    /\ frames = << >> /\ CpuRuns
    /\ h \in handles
    /\ slot' = [slot EXCEPT ![h] = AlarmState(0, "cb")]
    /\ cpsr_i' = release(acquire(cpsr_i).restore, acquire(cpsr_i).i)
    /\ lastRet' = [lastRet EXCEPT ![h] = "none"]
    /\ cbSince' = [cbSince EXCEPT ![h] = 0]
    /\ lastCb' = NoEvent /\ lastCall' = NoEvent
    /\ UNCHANGED << clk, cmp, csr, frames, halted, handles, armFar >>

\* Deadlines the client asks for: just past, now, next tick, and more than
\* one wrap of the low word ahead.
Deadlines == {t \in 0..MaxTime : t + 1 = now \/ t = now \/ t = now + 1
                                 \/ t = now + LoMod + 1}

\* The client calls set_alarm(h, t) from task context.
CallSetAlarm(h, t) ==
    /\ frames = << >> /\ CpuRuns
    /\ h \in handles
    /\ frames' = << SaFrame(h, t) >>
    /\ lastRet' = [lastRet EXCEPT ![h] = "none"]
    /\ cbSince' = [cbSince EXCEPT ![h] = 0]
    /\ armFar' = [armFar EXCEPT ![h] = t > now + LoMod]
    /\ lastCb' = NoEvent /\ lastCall' = NoEvent
    /\ UNCHANGED << cpsr_i, clk, cmp, csr, slot, halted, handles >>


\* ---- set_alarm(alarm, timestamp), run by the task or (re-arming) by the ISR

\* Mutant of SaPast: a deadline equal to now() is taken as still ahead.
SaPastStrict(t, n) == t < n

\* `timestamp <= self.now()` in set_alarm
SaPast(t, n) == t <= n

\* Mutant of IsrDue: the ISR compares the low words only.
IsrDueLowWord(t, n) == Truncate(t) <= Truncate(n)

\* `timestamp <= self.now()` in alarm_interrupt
IsrDue(t, n) == t <= n

\* Value written back to SYSTEM_TIME_CS on the race path: the bits read,
\* with the channel's own bit cleared (control_register &= !bitmask).
RaceWriteBack(read, h) == read \ {h}

\* SYSTEM_TIME_CS is write-1-to-clear: the bits written as 1 are cleared.
CsWrite(bits) == [g \in Handles |-> csr[g] /\ g \notin bits]

\* The frames after the ISR is done with source number k of the table: the
\* next source pending in the snapshot, or the return from the interrupt.
NextSource(pend, k) ==
    LET later == {j \in (k+1)..Len(INTERRUPT_SOURCES1) : INTERRUPT_SOURCES1[j] \in pend}
    IN IF later = {} THEN 0 ELSE CHOOSE j \in later : \A i \in later : j <= i

IsrAfterSource(fs) ==
    LET f == fs[Len(fs)]
        j == NextSource(f.pend, f.k)
    IN IF j = 0 THEN SubSeq(fs, 1, Len(fs) - 1)
       ELSE [fs EXCEPT ![Len(fs)] = [f EXCEPT !.pc = "ack", !.k = j,
                                               !.h = INTERRUPT_SOURCES1[j]]]

\* The I-bit after the ISR finished a source: the critical section of
\* alarm_interrupt is released, and the return from the exception restores
\* the CPSR of the interrupted context, whose I-bit was clear.
IsrAfterSourceI(fs, restore) ==
    IF Len(IsrAfterSource(fs)) < Len(fs) THEN FALSE ELSE release(restore, cpsr_i)

\* set_alarm returns `ret` to its caller.
SaReturn(ret, path, slotNext) ==
    LET f == Top
        below == Pop
    IN /\ lastCall' = [ev |-> TRUE, h |-> f.h, ts |-> f.ts, past |-> f.past,
                       ret |-> ret, wrote |-> f.wrote, path |-> path,
                       slotFree |-> slotNext[f.h] = None, task |-> below = << >>]
       /\ lastCb' = NoEvent
       /\ IF below = << >>
          THEN /\ frames' = << >>
               /\ lastRet' = [lastRet EXCEPT ![f.h] =
                                 IF ret THEN "true"
                                 ELSE IF path = "race" THEN "false_race" ELSE "none"]
          ELSE /\ lastRet' = lastRet
               /\ frames' = IF ret THEN IsrAfterSource(below)
                            ELSE [below EXCEPT ![Len(below)].pc = "loop"]

SaReturnI(ret, i) ==
    IF Pop # << >> /\ ret THEN IsrAfterSourceI(Pop, Pop[Len(Pop)].restore)
    ELSE i

\* if timestamp <= self.now() { ... return false }
SaCheck1 ==
    /\ frames # << >> /\ CpuRuns
    /\ Top.fn = "set_alarm" /\ Top.pc = "check1"
    /\ frames' = SetTop([Top EXCEPT !.pc = IF SaPast(Top.ts, now) THEN "clear1" ELSE "store"])
    /\ lastCb' = NoEvent /\ lastCall' = NoEvent
    /\ UNCHANGED << cpsr_i, clk, cmp, csr, slot, halted, handles,
                    lastRet, cbSince, armFar >>

\* critical_section::with(|cs| slot.set(None)); return false
SaClear1 ==
    /\ frames # << >> /\ CpuRuns
    /\ Top.fn = "set_alarm" /\ Top.pc = "clear1"
    /\ slot' = [slot EXCEPT ![Top.h] = None]
    /\ SaReturn(FALSE, "early", slot')
    /\ cpsr_i' = SaReturnI(FALSE, release(acquire(cpsr_i).restore, acquire(cpsr_i).i))
    /\ cbSince' = IF Depth = 1 THEN [cbSince EXCEPT ![Top.h] = 0] ELSE cbSince
    /\ armFar' = IF Depth = 1 THEN [armFar EXCEPT ![Top.h] = FALSE] ELSE armFar
    /\ UNCHANGED << clk, cmp, csr, halted, handles >>

\* critical_section::with: slot.take().expect("Alarm should be set");
\* state.timestamp = timestamp; slot.set(Some(state))
SaStore ==
    /\ frames # << >> /\ CpuRuns
    /\ Top.fn = "set_alarm" /\ Top.pc = "store"
    /\ lastCb' = NoEvent /\ lastCall' = NoEvent
    /\ IF slot[Top.h] = None
       THEN /\ halted' = TRUE
            /\ UNCHANGED << cpsr_i, slot, frames, cbSince >>
       ELSE /\ slot' = [slot EXCEPT ![Top.h].timestamp = Top.ts]
            /\ frames' = SetTop([Top EXCEPT !.pc = "write", !.stored = TRUE])
            /\ cbSince' = IF Depth = 1 THEN [cbSince EXCEPT ![Top.h] = 0] ELSE cbSince
            /\ cpsr_i' = release(acquire(cpsr_i).restore, acquire(cpsr_i).i)
            /\ halted' = halted
    /\ UNCHANGED << clk, cmp, csr, handles, lastRet, armFar >>

\* write_volatile(mmio_ptr, timestamp as u32)
SaWrite ==
    /\ frames # << >> /\ CpuRuns
    /\ Top.fn = "set_alarm" /\ Top.pc = "write"
    /\ cmp' = [cmp EXCEPT ![Top.h] = Truncate(Top.ts)]
    /\ frames' = SetTop([Top EXCEPT !.pc = "check2", !.wrote = TRUE])
    /\ lastCb' = NoEvent /\ lastCall' = NoEvent
    /\ UNCHANGED << cpsr_i, clk, csr, slot, halted, handles,
                    lastRet, cbSince, armFar >>

\* if timestamp <= self.now() { critical_section::with(... } else return true
SaCheck2 ==
    /\ frames # << >> /\ CpuRuns
    /\ Top.fn = "set_alarm" /\ Top.pc = "check2"
    /\ IF SaPast(Top.ts, now)
       THEN /\ frames' = SetTop([Top EXCEPT !.pc = "race_rd",
                                            !.restore = acquire(cpsr_i).restore])
            /\ cpsr_i' = acquire(cpsr_i).i
            /\ lastCb' = NoEvent /\ lastCall' = NoEvent
            /\ UNCHANGED lastRet
       ELSE /\ SaReturn(TRUE, "true", slot)
            /\ cpsr_i' = SaReturnI(TRUE, cpsr_i)
    /\ UNCHANGED << clk, cmp, csr, slot, halted, handles, cbSince, armFar >>

\* let mut control_register = read_volatile(SYSTEM_TIME_CS); control_register &= !bitmask
SaRaceRead ==
    /\ frames # << >> /\ CpuRuns
    /\ Top.fn = "set_alarm" /\ Top.pc = "race_rd"
    /\ frames' = SetTop([Top EXCEPT !.pc = "race_wr",
                                    !.creg = RaceWriteBack({g \in Handles : csr[g]}, Top.h)])
    /\ lastCb' = NoEvent /\ lastCall' = NoEvent
    /\ UNCHANGED << cpsr_i, clk, cmp, csr, slot, halted, handles,
                    lastRet, cbSince, armFar >>

\* write_volatile(SYSTEM_TIME_CS, control_register); slot.set(None); return false
SaRaceWrite ==
    /\ frames # << >> /\ CpuRuns
    /\ Top.fn = "set_alarm" /\ Top.pc = "race_wr"
    /\ csr' = CsWrite(Top.creg)
    /\ slot' = [slot EXCEPT ![Top.h] = None]
    /\ SaReturn(FALSE, "race", slot')
    /\ cpsr_i' = SaReturnI(FALSE, release(Top.restore, cpsr_i))
    /\ armFar' = IF Depth = 1 THEN [armFar EXCEPT ![Top.h] = FALSE] ELSE armFar
    /\ UNCHANGED << clk, cmp, halted, handles, cbSince >>


\* ---- interrupt_handler and alarm_interrupt

\* The core takes the IRQ: it masks IRQs and enters interrupt_handler.
IrqEntry ==
    /\ ~halted /\ ~cpsr_i /\ IrqAsserted
    /\ frames' = Append(frames, IsrFrame)
    /\ cpsr_i' = TRUE
    /\ lastCb' = NoEvent /\ lastCall' = NoEvent
    /\ UNCHANGED << clk, cmp, csr, slot, halted, handles,
                    lastRet, cbSince, armFar >>

\* basic_pending = IRQ_BASIC_PENDING; if bit 8: pending_irqs = IRQ_PENDING_1;
\* then the sources of the table whose bit is set in pending_irqs, in order.
IsrRead ==
    /\ frames # << >> /\ CpuRuns
    /\ Top.fn = "isr" /\ Top.pc = "read"
    /\ LET pend == {h \in Handles : csr[h]}
           fs == SetTop([Top EXCEPT !.pend = pend, !.k = 0])
       IN /\ frames' = IsrAfterSource(fs)
          /\ cpsr_i' = IF Len(IsrAfterSource(fs)) < Len(fs) THEN FALSE ELSE cpsr_i
    /\ lastCb' = NoEvent /\ lastCall' = NoEvent
    /\ UNCHANGED << clk, cmp, csr, slot, halted, handles,
                    lastRet, cbSince, armFar >>

\* alarm_interrupt(handle): write_volatile(SYSTEM_TIME_CS, 1 << bit); then, in
\* a critical section, slot.get().expect("Alarm should be set").
IsrAck ==
    /\ frames # << >> /\ CpuRuns
    /\ Top.fn = "isr" /\ Top.pc = "ack"
    /\ csr' = CsWrite({Top.h})
    /\ lastCb' = NoEvent /\ lastCall' = NoEvent
    /\ IF slot[Top.h] = None
       THEN /\ halted' = TRUE
            /\ UNCHANGED << cpsr_i, frames >>
       ELSE /\ frames' = SetTop([Top EXCEPT !.pc = "loop",
                                            !.ts = slot[Top.h].timestamp,
                                            !.cb = slot[Top.h].callback,
                                            !.restore = acquire(cpsr_i).restore])
            /\ cpsr_i' = acquire(cpsr_i).i
            /\ halted' = halted
    /\ UNCHANGED << clk, cmp, slot, handles, lastRet, cbSince, armFar >>

\* Ghost: invocations of the registered callback of handle h are counted from
\* the moment a task-level set_alarm stored its deadline until the next call
\* on h.
Tracking(h) ==
    \/ lastRet[h] = "true"
    \/ /\ frames # << >> /\ frames[1].fn = "set_alarm" /\ frames[1].h = h
       /\ frames[1].stored

\* The callback of handle h is invoked for deadline t: what the ghosts record.
CallbackEvent(h, t, cb) ==
    LET first == cb = "cb" /\ lastRet[h] = "true" /\ cbSince[h] = 0
    IN [ev |-> TRUE, h |-> h, cb |-> cb, ts |-> t, at |-> now,
        first |-> first,
        far |-> first /\ armFar[h],
        before |-> first /\ \E g \in Handles \ {h} :
                      /\ lastRet[g] = "true" /\ cbSince[g] = 0
                      /\ slot[g] # None /\ slot[g].callback = "cb"
                      /\ slot[g].timestamp < t]

\* loop { if timestamp <= self.now() { slot.set(Some(AlarmState {timestamp: 0,
\* callback, ctx})); callback(ctx); break } else if self.set_alarm(handle,
\* timestamp) { break } }
IsrLoop ==
    /\ frames # << >> /\ CpuRuns
    /\ Top.fn = "isr" /\ Top.pc = "loop"
    /\ lastCall' = NoEvent
    /\ IF IsrDue(Top.ts, now)
       THEN /\ slot' = [slot EXCEPT ![Top.h] = AlarmState(0, Top.cb)]
            /\ lastCb' = CallbackEvent(Top.h, Top.ts, Top.cb)
            /\ cbSince' = IF Top.cb = "cb" /\ Tracking(Top.h) /\ cbSince[Top.h] < 2
                          THEN [cbSince EXCEPT ![Top.h] = @ + 1] ELSE cbSince
            /\ armFar' = [armFar EXCEPT ![Top.h] = FALSE]
            /\ frames' = IsrAfterSource(frames)
            /\ cpsr_i' = IsrAfterSourceI(frames, Top.restore)
       ELSE /\ frames' = Append(SetTop([Top EXCEPT !.pc = "wait"]),
                                SaFrame(Top.h, Top.ts))
            /\ lastCb' = NoEvent
            /\ UNCHANGED << slot, cbSince, cpsr_i, armFar >>
    /\ UNCHANGED << clk, cmp, csr, halted, handles, lastRet >>

\* ---- the specification of the time driver
TimerInit ==
    /\ clk = 1
    /\ cmp = [h \in Handles |-> 0]
    /\ csr = [h \in Handles |-> FALSE]
    /\ slot = [h \in Handles |-> None]
    /\ frames = << >>
    /\ halted = FALSE
    /\ handles = {}
    /\ lastRet = [h \in Handles |-> "none"]
    /\ cbSince = [h \in Handles |-> 0]
    /\ armFar = [h \in Handles |-> FALSE]
    /\ lastCb = NoEvent
    /\ lastCall = NoEvent

\* ------------------------------------------------- 3. now(), read by read
\* Mutant of NowRetry: the re-read of CHI is not compared.
NowRetryNever(check, hi) == FALSE

\* if check != hi { self.now() } else { ... }
NowRetry(check, hi) == check # hi

\* The caller enters now().
NowCall ==
    /\ nowPc = "idle"
    /\ nowPc' = "hi"
    /\ nowAt' = [call |-> clk, lo |-> 0, retried |-> FALSE]
    /\ UNCHANGED << nowHi, nowLo, nowRet >>

\* let hi = read_volatile(SYSTEM_TIME_CHI)
NowReadHi ==
    /\ nowPc = "hi"
    /\ nowHi' = CHI
    /\ nowPc' = "lo"
    /\ UNCHANGED << nowLo, nowAt, nowRet >>

\* let lo = read_volatile(SYSTEM_TIME_CLO)
NowReadLo ==
    /\ nowPc = "lo"
    /\ nowLo' = CLO
    /\ nowAt' = [nowAt EXCEPT !.lo = clk]
    /\ nowPc' = "check"
    /\ UNCHANGED << nowHi, nowRet >>

\* let check = read_volatile(SYSTEM_TIME_CHI); retry or return hi:lo
NowCheck ==
    /\ nowPc = "check"
    /\ IF NowRetry(CHI, nowHi)
       THEN /\ nowPc' = "hi"
            /\ nowAt' = [nowAt EXCEPT !.retried = TRUE]
            /\ UNCHANGED nowRet
       ELSE /\ nowPc' = "idle"
            /\ nowRet' = [ev |-> TRUE, val |-> NowValue(nowHi, nowLo),
                          prev |-> IF nowRet.ev THEN nowRet.val ELSE 0,
                          call |-> nowAt.call, lo |-> nowAt.lo, ret |-> clk,
                          retried |-> nowAt.retried]
            /\ UNCHANGED nowAt
    /\ UNCHANGED << nowHi, nowLo >>

\* Hardware: the counter advances while now() runs.
NowTick ==
    /\ clk < MaxTime
    /\ clk' = clk + 1

NowInit ==
    /\ nowPc = "idle" /\ nowHi = 0 /\ nowLo = 0
    /\ nowAt = [call |-> 0, lo |-> 0, retried |-> FALSE]
    /\ nowRet = NoEvent

\* ------------------------------------------------- 4. executor
\* Tasks of the raw executor's pool that can be woken.
NumTasks == 2

\* Interrupts the peripherals raise in one behaviour of the model.
MaxIrqs == 3
Tasks == 1..NumTasks

\* __pender: WORK_SIGNALED.store(true, SeqCst)
pender == TRUE

\* Mutant of swap: the flag is read but false is not stored.
swapLoadOnly(ws) == [old |-> ws, new |-> ws]

\* WORK_SIGNALED.swap(false, SeqCst): the old value and the value left.
swap(ws) == [old |-> ws, new |-> FALSE]

\* On one core an unmasked pending IRQ is taken before the next instruction.
ExecRuns == isrPc = "none" /\ (cpsr_i \/ ~irqLine)

\* Hardware: a peripheral raises its interrupt.
ExecIrqRaise ==
    /\ ~irqLine /\ irqCount < MaxIrqs
    /\ irqLine' = TRUE
    /\ irqCount' = irqCount + 1
    /\ UNCHANGED << cpsr_i, epc, WORK_SIGNALED, runQueue, batch, slept, restoreState, isrPc >>

\* The core takes the IRQ (only with the I-bit clear) and masks IRQs.
ExecIrqEntry ==
    /\ ~cpsr_i /\ irqLine /\ isrPc = "none"
    /\ isrPc' = "handler"
    /\ cpsr_i' = TRUE
    /\ UNCHANGED << epc, WORK_SIGNALED, runQueue, batch, irqLine, slept, restoreState, irqCount >>

\* interrupt_handler serves the source; the handlers it calls may wake tasks,
\* and each wake enqueues the task and calls __pender.
ExecIsrBody(woken) ==
    /\ isrPc = "handler"
    /\ irqLine' = FALSE
    /\ runQueue' = runQueue \cup woken
    /\ WORK_SIGNALED' = IF woken # {} THEN pender ELSE WORK_SIGNALED
    /\ isrPc' = "return"
    /\ UNCHANGED << cpsr_i, epc, batch, slept, restoreState, irqCount >>

\* Return from the interrupt: the CPSR of the interrupted code comes back.
ExecIrqReturn ==
    /\ isrPc = "return"
    /\ isrPc' = "none"
    /\ cpsr_i' = FALSE
    /\ UNCHANGED << epc, WORK_SIGNALED, runQueue, batch, irqLine, slept, restoreState, irqCount >>

\* self.raw.poll(): the run queue is taken ...
ExecPollBegin ==
    /\ epc = "poll" /\ ExecRuns
    /\ batch' = runQueue
    /\ runQueue' = {}
    /\ epc' = "polling"
    /\ UNCHANGED << cpsr_i, WORK_SIGNALED, irqLine, slept, restoreState, isrPc, irqCount >>

\* ... and each task of it is polled; a polled task may wake tasks.
ExecPollTask(t, woken) ==
    /\ epc = "polling" /\ ExecRuns
    /\ t \in batch
    /\ batch' = batch \ {t}
    /\ runQueue' = runQueue \cup woken
    /\ WORK_SIGNALED' = IF woken # {} THEN pender ELSE WORK_SIGNALED
    /\ UNCHANGED << cpsr_i, epc, irqLine, slept, restoreState, isrPc, irqCount >>

\* critical_section::with(|_| ... : acquire
ExecAcquire ==
    /\ epc = "polling" /\ ExecRuns
    /\ batch = {}
    /\ restoreState' = acquire(cpsr_i).restore
    /\ cpsr_i' = acquire(cpsr_i).i
    /\ epc' = "swap"
    /\ UNCHANGED << WORK_SIGNALED, runQueue, batch, irqLine, slept, isrPc, irqCount >>

\* if !WORK_SIGNALED.swap(false, SeqCst) { wfi }
ExecSwap ==
    /\ epc = "swap" /\ ExecRuns
    /\ WORK_SIGNALED' = swap(WORK_SIGNALED).new
    /\ epc' = IF ~swap(WORK_SIGNALED).old THEN "wfi" ELSE "release"
    /\ slept' = FALSE
    /\ UNCHANGED << cpsr_i, runQueue, batch, irqLine, restoreState, isrPc, irqCount >>

\* WFI: the core sleeps until an interrupt is pending, masked or not.
ExecWfi ==
    /\ epc = "wfi" /\ isrPc = "none"
    /\ irqLine
    /\ epc' = "release"
    /\ slept' = TRUE
    /\ UNCHANGED << cpsr_i, WORK_SIGNALED, runQueue, batch, irqLine, restoreState, isrPc, irqCount >>

\* end of critical_section::with: release, and loop
ExecRelease ==
    /\ epc = "release" /\ isrPc = "none"
    /\ cpsr_i' = release(restoreState, cpsr_i)
    /\ epc' = "poll"
    /\ UNCHANGED << WORK_SIGNALED, runQueue, batch, irqLine, slept, restoreState, isrPc, irqCount >>

\* init(self.raw.spawner()) spawned tasks, which are queued and pended.
ExecInit ==
    /\ epc = "poll"
    /\ runQueue = Tasks
    /\ WORK_SIGNALED = pender
    /\ batch = {}
    /\ irqLine = FALSE
    /\ slept = FALSE
    /\ restoreState = FALSE
    /\ isrPc = "none"
    /\ irqCount = 0

\* ------------------------------------------------- 5. nested critical sections
\* Deepest nesting of critical sections in the model.
MaxNest == 2

\* The two contexts code runs in, and the one running now.
Ctx == {"task", "isr"}
Cur == IF csIsr THEN "isr" ELSE "task"

\* On one core an unmasked pending IRQ is taken before the next instruction.
CsRuns == cpsr_i \/ ~irqLine

\* acquire(), first instruction: mrs {}, cpsr
CsAcquireRead ==
    /\ CsRuns /\ csPc[Cur] = "run" /\ Len(csStack[Cur]) < MaxNest
    /\ csRead' = [csRead EXCEPT ![Cur] = cpsr_i]
    /\ csPc' = [csPc EXCEPT ![Cur] = "acq"]
    /\ csExit' = NoEvent
    /\ UNCHANGED << cpsr_i, csStack, csOuter, csIrq, csIsr, irqLine >>

\* acquire(), the rest: if cpsr & (1 << 7) == 0 { disable(); true } else
\* { false }
CsAcquireMask ==
    /\ CsRuns /\ csPc[Cur] = "acq"
    /\ csStack' = [csStack EXCEPT ![Cur] = Append(@, acquire(csRead[Cur]).restore)]
    /\ cpsr_i' = IF acquire(csRead[Cur]).restore THEN acquire(csRead[Cur]).i ELSE cpsr_i
    /\ csOuter' = [csOuter EXCEPT ![Cur] =
                      IF csStack[Cur] = << >> THEN [i |-> csRead[Cur], nested |-> FALSE]
                      ELSE [@ EXCEPT !.nested = TRUE]]
    /\ csPc' = [csPc EXCEPT ![Cur] = "run"]
    /\ csExit' = NoEvent
    /\ UNCHANGED << csRead, csIrq, csIsr, irqLine >>

\* release(restore_state) of the innermost open section
CsRelease ==
    /\ CsRuns /\ csPc[Cur] = "run" /\ csStack[Cur] # << >>
    /\ cpsr_i' = release(csStack[Cur][Len(csStack[Cur])], cpsr_i)
    /\ csStack' = [csStack EXCEPT ![Cur] = SubSeq(@, 1, Len(@) - 1)]
    /\ csExit' = IF Len(csStack[Cur]) = 1
                 THEN [ev |-> TRUE, before |-> csOuter[Cur].i, after |-> cpsr_i',
                       nested |-> csOuter[Cur].nested]
                 ELSE NoEvent
    /\ UNCHANGED << csPc, csRead, csOuter, csIrq, csIsr, irqLine >>

\* interrupt::disable() / interrupt::enable(), called outside of a critical
\* section by code running in task context.
CsDisable ==
    /\ CsRuns /\ ~csIsr /\ csPc["task"] = "run" /\ csStack["task"] = << >> /\ ~cpsr_i
    /\ cpsr_i' = TRUE
    /\ csExit' = NoEvent
    /\ UNCHANGED << csStack, csPc, csRead, csOuter, csIrq, csIsr, irqLine >>

CsEnable ==
    /\ CsRuns /\ ~csIsr /\ csPc["task"] = "run" /\ csStack["task"] = << >> /\ cpsr_i
    /\ cpsr_i' = FALSE
    /\ csExit' = NoEvent
    /\ UNCHANGED << csStack, csPc, csRead, csOuter, csIrq, csIsr, irqLine >>

\* Hardware: a peripheral raises its interrupt.
CsIrqRaise ==
    /\ ~irqLine
    /\ irqLine' = TRUE
    /\ UNCHANGED << cpsr_i, csStack, csPc, csRead, csOuter, csExit, csIrq, csIsr >>

\* The core takes the IRQ (only with the I-bit clear) and masks IRQs.
CsIrqEntry ==
    /\ ~cpsr_i /\ irqLine /\ ~csIsr
    /\ csIsr' = TRUE
    /\ cpsr_i' = TRUE
    /\ csIrq' = (csIrq \/ csStack["task"] # << >>)
    /\ csExit' = NoEvent
    /\ UNCHANGED << csStack, csPc, csRead, csOuter, irqLine >>

\* The handler serves the source, which releases the interrupt line.
CsIrqAck ==
    /\ csIsr /\ irqLine /\ csPc["isr"] = "run"
    /\ irqLine' = FALSE
    /\ UNCHANGED << cpsr_i, csStack, csPc, csRead, csOuter, csExit, csIrq, csIsr >>

\* Return from the interrupt: the CPSR of the interrupted code comes back.
CsIrqReturn ==
    /\ csIsr /\ csStack["isr"] = << >> /\ csPc["isr"] = "run" /\ ~irqLine
    /\ csIsr' = FALSE
    /\ cpsr_i' = FALSE
    /\ csExit' = NoEvent
    /\ UNCHANGED << csStack, csPc, csRead, csOuter, csIrq, irqLine >>

CsInit ==
    /\ csStack = [c \in Ctx |-> << >>]
    /\ csPc = [c \in Ctx |-> "run"]
    /\ csRead = [c \in Ctx |-> FALSE]
    /\ csOuter = [c \in Ctx |-> [i |-> FALSE, nested |-> FALSE]]
    /\ csExit = NoEvent
    /\ csIrq = FALSE
    /\ csIsr = FALSE

\* ------------------------------------------------- 6. GPIO pin ownership
\* Live tokens per pin the model follows.
MaxTokens == 2

\* Pins of the model: both ends of GPIO_SET.lower, the first and a late bit
\* of GPIO_SET.upper.
Pins == {0, 31, 32, 52}

\* PinType::MODE_BITS of every pin type.
MODE_BITS ==
    [Input |-> 0, Output |-> 1, Alternate0 |-> 4, Alternate1 |-> 5,
     Alternate2 |-> 6, Alternate3 |-> 7, Alternate4 |-> 3, Alternate5 |-> 2]

\* Pin types of the model.
PinTypes == {"Input", "Alternate5"}

\* The function-select words: FUNCTION_SELECT_BASE.add(0 .. 5)
FselWords == 0 .. 5

\* shift = (PIN % 10) * 3
FselShiftBy2(p) == (p % 10) * 2
FselShift(p) == (p % 10) * 3

\* The three bits of a word from bit sh on: (w >> sh) & 0b111
Field(w, sh) == (w \div 2^sh) % 8

\* (func_sel & !(0b111 << shift)) | (T::MODE_BITS << shift)
FselWrite(func_sel, shift, bits) ==
    (func_sel - Field(func_sel, shift) * 2^shift) + bits * 2^shift

\* GpioSet::lock::<PIN>(): fetch_or(mask) & mask != 0
lock(p) ==
    IF p < 32
    THEN [ret |-> p \in lower, lower |-> lower \cup {p}, upper |-> upper]
    ELSE [ret |-> (p - 32) \in upper, lower |-> lower, upper |-> upper \cup {p - 32}]

\* GpioSet::unlock::<PIN>(): fetch_and(!mask) & mask != 0
unlock(p) ==
    IF p < 32
    THEN [ret |-> p \in lower, lower |-> lower \ {p}, upper |-> upper]
    ELSE [ret |-> (p - 32) \in upper, lower |-> lower, upper |-> upper \ {p - 32}]

\* What Pin::get returns after GPIO_SET.lock::<PIN>() returned `locked`:
\* the result of lock is dropped and Some(Pin) is returned.
GetIsSome(locked) == TRUE

\* Pin numbers a client instantiates Pin::<PIN, T>::get() with: the pins of
\* the model, the last pin of the device (53) and the first number past it.
PinNumbers == Pins \cup {53, 54}

\* const { assert!(PIN < 53, "invalid pin number, only pins 0-53 are valid.") }
PinAssert(p) == p < 53

\* Pin::<P, T>::get() for a pin number the assertion passes
PinGet(p, t) ==
    /\ PinAssert(p)
    /\ tokens[p] < MaxTokens
    /\ lower' = lock(p).lower
    /\ upper' = lock(p).upper
    /\ fsel' = [fsel EXCEPT ![p \div 10] = FselWrite(@, FselShift(p), MODE_BITS[t])]
    /\ tokens' = [tokens EXCEPT ![p] = IF GetIsSome(lock(p).ret) THEN @ + 1 ELSE @]
    /\ lastGet' = [ev |-> TRUE, pin |-> p, type |-> t,
                   some |-> GetIsSome(lock(p).ret), held |-> tokens[p] > 0]

\* Pin::<P, T>::get() for a pin number the assertion fails: the constant
\* evaluation fails, no code of get runs.
PinGetRejected(p) ==
    /\ ~PinAssert(p)
    /\ lastGet' = [ev |-> FALSE, rejected |-> p]
    /\ UNCHANGED << lower, upper, tokens, fsel >>

\* drop(Pin<P, T>)
PinDrop(p) ==
    /\ tokens[p] > 0
    /\ lower' = unlock(p).lower
    /\ upper' = unlock(p).upper
    /\ tokens' = [tokens EXCEPT ![p] = @ - 1]
    /\ lastGet' = NoEvent
    /\ UNCHANGED fsel

GpioInit ==
    /\ lower = {} /\ upper = {}
    /\ tokens = [p \in PinNumbers |-> 0]
    /\ fsel = [w \in FselWords |-> 0]
    /\ lastGet = NoEvent

\* ------------------------------------------------- 7. boot, Mini-UART
\* const CLOCK_SPEED: u32 = 250_000_000
CLOCK_SPEED == 250000000

\* The range set_baud_rate accepts: (476..=31_250_000)
BaudMin == 476
BaudMax == 31250000

\* Baud rates the client asks for: around both ends of the range, common
\* rates, zero and the largest values of a u32 the arithmetic can show.
BaudSamples == {0, 1, 475, 476, 477, 9600, 115200, 31249999, 31250000, 31250001,
                536870912, 2147483647}

\* IRQ numbers of the sources (BCM2835 ARM Peripherals, section 7.5): the
\* tables name 1, 3, 49 and 50; the auxiliary peripherals raise IRQ 29.
Irq == [timer1 |-> 1, timer3 |-> 3, aux |-> 29, gpio0 |-> 49, gpio1 |-> 50]

\* The bits of INTERRUPT_SOURCES1 and INTERRUPT_SOURCES2, in table order.
INTERRUPT_BITS1 == << Irq.timer1, Irq.timer3 >>
INTERRUPT_BITS2 == << Irq.gpio0, Irq.gpio1 >>

\* interrupt::setup(): the union of the bits of both tables.
SetupEnableBits ==
    {INTERRUPT_BITS1[k] : k \in 1..Len(INTERRUPT_BITS1)}
        \cup {INTERRUPT_BITS2[k] : k \in 1..Len(INTERRUPT_BITS2)}

\* interrupt_handler: the pending sources a table entry exists for.
Routed(pending) == pending \cap SetupEnableBits

\* Mutant of BaudInRange: the lower end is off by one.
BaudInRangeFrom475(b) == BaudMin - 1 <= b /\ b <= BaudMax

\* (476..=31_250_000).contains(&baud_rate)
BaudInRange(b) == BaudMin <= b /\ b <= BaudMax

\* 8 * baud_rate on a u32 (wrapping at 2^32 in a release build).
Mul8U32(b) == 8 * (b % 536870912)

\* (CLOCK_SPEED / (8 * baud_rate)) - 1
BaudRegValue(b) == (CLOCK_SPEED \div Mul8U32(b)) - 1

\* MiniUartLock::get: if enable_state & 1 != 0 { return None }
LockFree(en) == 0 \notin en

\* The Mini-UART asserts its interrupt: receive interrupt enabled and a byte
\* in the FIFO (INTERRUPT_ID_REG bits 2:1 = 0b10).
UartRxIrq == 0 \in ier /\ rxReady

\* IRQ numbers pending in the interrupt controller.
PendingIrqs ==
    (IF UartRxIrq THEN {Irq.aux} ELSE {}) \cup (IF gpioEvent THEN {Irq.gpio0} ELSE {})

\* The controller asserts the core's IRQ input for pending, enabled sources.
AuxIrqAsserted == PendingIrqs \cap enableIrqs # {}

\* first_stage: aux::setup, the write of AUX_ENABLES
BootAuxSetup ==
    /\ bootPc = "aux_setup"
    /\ auxEnables' = auxEnables \cup {0}
    /\ bootPc' = "uart_setup"
    /\ UNCHANGED << cpsr_i, enableIrqs, uartLive, lastUartGet, baudReg, baud_rate,
                    lastBaud, auxHalted, ier, rxReady, gpioEvent, READER_WAKER,
                    futState >>

\* first_stage: uart::setup(cs), which no file of the repository defines;
\* nothing says that it writes AUX_ENABLES.
BootUartSetup ==
    /\ bootPc = "uart_setup"
    /\ bootPc' = "irq_setup"
    /\ UNCHANGED << cpsr_i, auxEnables, enableIrqs, uartLive, lastUartGet, baudReg,
                    baud_rate, lastBaud, auxHalted, ier, rxReady, gpioEvent,
                    READER_WAKER, futState >>

\* first_stage: interrupt::setup(), then main
BootIrqSetup ==
    /\ bootPc = "irq_setup"
    /\ enableIrqs' = SetupEnableBits
    /\ bootPc' = "main"
    /\ UNCHANGED << cpsr_i, auxEnables, uartLive, lastUartGet, baudReg, baud_rate,
                    lastBaud, auxHalted, ier, rxReady, gpioEvent, READER_WAKER,
                    futState >>

\* User code runs: after boot, no panic, and no unmasked IRQ waiting.
AuxRuns == bootPc = "main" /\ ~auxHalted /\ (cpsr_i \/ ~AuxIrqAsserted)

\* MiniUart::get(): MiniUartLock::get in a critical section, then
\* get_with_lock.
UartGet ==
    /\ AuxRuns
    /\ lastUartGet' = [ev |-> TRUE, some |-> LockFree(auxEnables), live |-> uartLive > 0]
    /\ IF LockFree(auxEnables)
       THEN /\ auxEnables' = auxEnables \cup {0}
            /\ uartLive' = uartLive + 1
            /\ baud_rate' = 0
            /\ lastBaud' = NoEvent
       ELSE UNCHANGED << auxEnables, uartLive, baud_rate, lastBaud >>
    /\ cpsr_i' = release(acquire(cpsr_i).restore, acquire(cpsr_i).i)
    /\ UNCHANGED << bootPc, enableIrqs, baudReg, auxHalted, ier, rxReady, gpioEvent,
                    READER_WAKER, futState >>

\* MiniUart::get_unchecked(), called as its safety contract asks: when no
\* instance is live.
UartGetUnchecked ==
    /\ AuxRuns
    /\ uartLive = 0
    /\ auxEnables' = auxEnables \cup {0}
    /\ uartLive' = uartLive + 1
    /\ baud_rate' = 0
    /\ lastBaud' = NoEvent
    /\ lastUartGet' = NoEvent
    /\ UNCHANGED << cpsr_i, bootPc, enableIrqs, baudReg, auxHalted, ier, rxReady,
                    gpioEvent, READER_WAKER, futState >>

\* drop(MiniUart): MiniUartLock::drop clears bit 0 of AUX_ENABLES; the read
\* future borrows the instance, so none is in flight.
UartDrop ==
    /\ AuxRuns
    /\ uartLive > 0 /\ futState \in {"none", "ready"}
    /\ auxEnables' = auxEnables \ {0}
    /\ uartLive' = uartLive - 1
    /\ futState' = "none"
    /\ lastUartGet' = NoEvent
    /\ lastBaud' = NoEvent
    /\ UNCHANGED << cpsr_i, bootPc, enableIrqs, baudReg, baud_rate, auxHalted, ier,
                    rxReady, gpioEvent, READER_WAKER >>

\* MiniUart::set_baud_rate(b); it takes &mut self, so no read future is in
\* flight.
SetBaudRate(b) ==
    /\ AuxRuns
    /\ uartLive > 0 /\ futState \in {"none", "ready"}
    /\ IF BaudInRange(b)
       THEN /\ baudReg' = BaudRegValue(b)
            /\ baud_rate' = b
            /\ UNCHANGED auxHalted
       ELSE /\ auxHalted' = TRUE
            /\ UNCHANGED << baudReg, baud_rate >>
    /\ lastBaud' = [ev |-> TRUE, b |-> b, panicked |-> auxHalted', before |-> baudReg]
    /\ UNCHANGED << cpsr_i, bootPc, auxEnables, enableIrqs, uartLive, lastUartGet, ier,
                    rxReady, gpioEvent, READER_WAKER, futState >>

\* The task awaits a new read of one byte.
ReadStart ==
    /\ AuxRuns
    /\ uartLive > 0 /\ futState \in {"none", "ready"}
    /\ futState' = "new"
    /\ UNCHANGED << cpsr_i, bootPc, auxEnables, enableIrqs, uartLive, lastUartGet,
                    baudReg, baud_rate, lastBaud, auxHalted, ier, rxReady, gpioEvent,
                    READER_WAKER >>

\* ReadFut::poll on a buffer of one byte, run by the executor when the
\* future is first awaited and each time its waker was woken.
ReadFutPoll ==
    /\ AuxRuns
    /\ futState \in {"new", "woken"}
    /\ IF rxReady
       THEN /\ rxReady' = FALSE
            /\ futState' = "ready"
            /\ UNCHANGED << READER_WAKER, ier >>
       ELSE /\ READER_WAKER' = TRUE
            /\ ier' = ier \cup {0, 2, 3}
            /\ futState' = "pending"
            /\ UNCHANGED rxReady
    /\ cpsr_i' = release(acquire(cpsr_i).restore, acquire(cpsr_i).i)
    /\ UNCHANGED << bootPc, auxEnables, enableIrqs, uartLive, lastUartGet, baudReg,
                    baud_rate, lastBaud, auxHalted, gpioEvent >>

\* Hardware: a byte arrives in the receive FIFO.
HwRxByte ==
    /\ bootPc = "main" /\ uartLive > 0 /\ ~rxReady
    /\ rxReady' = TRUE
    /\ UNCHANGED << cpsr_i, bootPc, auxEnables, enableIrqs, uartLive, lastUartGet,
                    baudReg, baud_rate, lastBaud, auxHalted, ier, gpioEvent,
                    READER_WAKER, futState >>

\* Hardware: an event is detected on a pin of GPIO bank 0.
HwGpioEvent ==
    /\ bootPc = "main" /\ ~gpioEvent
    /\ gpioEvent' = TRUE
    /\ UNCHANGED << cpsr_i, bootPc, auxEnables, enableIrqs, uartLive, lastUartGet,
                    baudReg, baud_rate, lastBaud, auxHalted, ier, rxReady,
                    READER_WAKER, futState >>

\* The core takes the IRQ and interrupt_handler runs to its end with IRQs
\* masked: each pending source that has a table entry gets its handler.
\* gpio::interrupt_handler1 clears the event; aux::interrupt_handler, were
\* it routed, would mask the receive interrupt and wake READER_WAKER.
AuxIrqTaken ==
    /\ bootPc = "main" /\ ~auxHalted
    /\ ~cpsr_i /\ AuxIrqAsserted
    /\ LET routed == Routed(PendingIrqs) IN
        /\ gpioEvent' = IF Irq.gpio0 \in routed THEN FALSE ELSE gpioEvent
        /\ ier' = IF Irq.aux \in routed /\ UartRxIrq THEN ier \ {0} ELSE ier
        /\ READER_WAKER' = IF Irq.aux \in routed /\ UartRxIrq THEN FALSE
                           ELSE READER_WAKER
        /\ futState' = IF Irq.aux \in routed /\ UartRxIrq /\ READER_WAKER
                          /\ futState = "pending"
                       THEN "woken" ELSE futState
    /\ UNCHANGED << cpsr_i, bootPc, auxEnables, enableIrqs, uartLive, lastUartGet,
                    baudReg, baud_rate, lastBaud, auxHalted, rxReady >>

AuxInit ==
    /\ bootPc = "aux_setup"
    /\ auxEnables = {}
    /\ enableIrqs = {}
    /\ uartLive = 0
    /\ lastUartGet = NoEvent
    /\ baudReg = 0
    /\ baud_rate = 0
    /\ lastBaud = NoEvent
    /\ auxHalted = FALSE
    /\ ier = {}
    /\ rxReady = FALSE
    /\ gpioEvent = FALSE
    /\ READER_WAKER = FALSE
    /\ futState = "none"

\* ------------------------------------------------- 8. GPIO event detection
\* Detectors created on the pin in one behaviour of the model.
MaxDetectors == 3

\* The task runs: IRQ 49 is enabled by interrupt::setup, so a pending event
\* is served before the next instruction of the task.
DetRuns == cpsr_i \/ ~detStatus

\* Pin::detect(state) with a non-empty DetectState; the task awaits it.
DetCreate ==
    /\ DetRuns
    /\ det = None /\ detCount < MaxDetectors
    /\ det' = [id |-> detCount + 1, setup |-> FALSE, pc |-> "idle", old |-> 0,
               handledOwn |-> FALSE]
    /\ detCount' = detCount + 1
    /\ lastDet' = NoEvent
    /\ UNCHANGED << cpsr_i, detEnable, detStatus, wakerSlot, evOwn >>

\* Detector::poll, first part: old_waker = slot.replace(waker) in a critical
\* section.  The executor may poll a future at any time.
DetPollReplace ==
    /\ DetRuns
    /\ det # None /\ det.pc = "idle"
    /\ det' = [det EXCEPT !.old = wakerSlot, !.pc = "replaced"]
    /\ wakerSlot' = det.id
    /\ cpsr_i' = release(acquire(cpsr_i).restore, acquire(cpsr_i).i)
    /\ lastDet' = NoEvent
    /\ UNCHANGED << detEnable, detStatus, detCount, evOwn >>

\* Detector::poll, the rest: if !self.setup { setup_detection(); Pending }
\* else if old_waker.is_none() { slot.set(None); Ready } else { Pending }
DetPollFinish ==
    /\ DetRuns
    /\ det # None /\ det.pc = "replaced"
    /\ IF ~det.setup
       THEN /\ detEnable' = TRUE
            /\ det' = [det EXCEPT !.setup = TRUE, !.pc = "idle"]
            /\ lastDet' = NoEvent
            /\ UNCHANGED wakerSlot
       ELSE IF det.old = 0
       THEN /\ wakerSlot' = 0
            /\ lastDet' = [ev |-> TRUE, own |-> det.handledOwn]
            /\ det' = None
            /\ UNCHANGED detEnable
       ELSE /\ det' = [det EXCEPT !.pc = "idle"]
            /\ lastDet' = NoEvent
            /\ UNCHANGED << detEnable, wakerSlot >>
    /\ cpsr_i' = release(acquire(cpsr_i).restore, acquire(cpsr_i).i)
    /\ UNCHANGED << detStatus, detCount, evOwn >>

\* The Detector is dropped while pending: Detector has no Drop, the waker in
\* the slot and the detect-enable bits stay.
DetDrop ==
    /\ DetRuns
    /\ det # None /\ det.pc = "idle"
    /\ det' = None
    /\ lastDet' = NoEvent
    /\ UNCHANGED << cpsr_i, detEnable, detStatus, wakerSlot, detCount, evOwn >>

\* Hardware: the armed condition occurs on the pin.
HwPinEvent ==
    /\ detEnable /\ ~detStatus
    /\ detStatus' = TRUE
    /\ evOwn' = (det # None /\ det.setup)
    /\ UNCHANGED << cpsr_i, detEnable, wakerSlot, det, detCount, lastDet >>

\* The IRQ is taken and gpio::interrupt_handler1 runs: take the waker of the
\* pin, clear the pin's bit in every detect-enable register, clear the
\* status bit, wake.
DetIsr ==
    /\ ~cpsr_i /\ detStatus
    /\ wakerSlot' = 0
    /\ detEnable' = FALSE
    /\ detStatus' = FALSE
    /\ det' = IF det # None /\ evOwn THEN [det EXCEPT !.handledOwn = TRUE] ELSE det
    /\ evOwn' = FALSE
    /\ UNCHANGED << cpsr_i, detCount, lastDet >>

DetInit ==
    /\ detEnable = FALSE
    /\ detStatus = FALSE
    /\ wakerSlot = 0
    /\ det = None
    /\ detCount = 0
    /\ evOwn = FALSE
    /\ lastDet = NoEvent

\* ------------------------------------------------- 9. blocking Reader::read
\* Length of the longest buffer, bytes the line delivers in one behaviour,
\* and depth of the receive FIFO of the model.
MaxBuf == 3
MaxBytes == 5
RxFifoDepth == 2

\* `else if count != 0 { return Ok(count) }`
ReadWouldBlockAlways(c) == TRUE
ReadWouldBlock(c) == c # 0

\* read(&mut self, buf) is called with a buffer of len bytes.  With an empty
\* buffer the for loop has no iteration and Ok(buf.len()) is returned.
ReadCall(len) ==
    /\ rdPc = "idle"
    /\ buf' = [i \in 1 .. len |-> 0]
    /\ count' = 0
    /\ rdTaken' = << >>
    /\ rdStatus' = [ovr |-> FALSE, ready |-> FALSE]
    /\ IF len = 0
       THEN rdPc' = "done" /\ rdRet' = [kind |-> "ok", n |-> 0]
       ELSE rdPc' = "loop" /\ rdRet' = None
    /\ UNCHANGED << rxFifo, rxOverrun, rxSent >>

\* One iteration of the inner loop: read LINE_STATUS_REG (the read clears
\* the overrun bit), then return Err(Overrun), or store IO_REG into *byte
\* and go to the next byte (Ok(buf.len()) after the last), or return
\* Ok(count), or go round again.
ReadLoop ==
    /\ rdPc = "loop"
    /\ rdStatus' = [ovr |-> rxOverrun, ready |-> rxFifo # << >>]
    /\ rxOverrun' = FALSE
    /\ IF rxOverrun
       THEN /\ rdPc' = "done" /\ rdRet' = [kind |-> "err"]
            /\ UNCHANGED << rxFifo, buf, count, rdTaken >>
       ELSE IF rxFifo # << >>
       THEN /\ buf' = [buf EXCEPT ![count + 1] = Head(rxFifo)]
            /\ rxFifo' = Tail(rxFifo)
            /\ rdTaken' = Append(rdTaken, Head(rxFifo))
            /\ count' = count + 1
            /\ IF count + 1 = Len(buf)
               THEN rdPc' = "done" /\ rdRet' = [kind |-> "ok", n |-> Len(buf)]
               ELSE UNCHANGED << rdPc, rdRet >>
       ELSE IF ReadWouldBlock(count)
       THEN /\ rdPc' = "done" /\ rdRet' = [kind |-> "ok", n |-> count]
            /\ UNCHANGED << rxFifo, buf, count, rdTaken >>
       ELSE UNCHANGED << rxFifo, buf, count, rdTaken, rdPc, rdRet >>
    /\ UNCHANGED rxSent

\* The caller takes the result.
ReadReturn ==
    /\ rdPc = "done"
    /\ rdPc' = "idle"
    /\ rdRet' = None
    /\ UNCHANGED << rxFifo, rxOverrun, rxSent, buf, count, rdTaken, rdStatus >>

\* Hardware: a byte arrives on the line; it is lost and the overrun bit is
\* set when the FIFO is full.
HwLineByte ==
    /\ rxSent < MaxBytes
    /\ rxSent' = rxSent + 1
    /\ IF Len(rxFifo) < RxFifoDepth
       THEN rxFifo' = Append(rxFifo, rxSent + 1) /\ UNCHANGED rxOverrun
       ELSE rxOverrun' = TRUE /\ UNCHANGED rxFifo
    /\ UNCHANGED << rdPc, buf, count, rdRet, rdTaken, rdStatus >>

ReadInit ==
    /\ rxFifo = << >>
    /\ rxOverrun = FALSE
    /\ rxSent = 0
    /\ rdPc = "idle"
    /\ buf = << >>
    /\ count = 0
    /\ rdRet = None
    /\ rdTaken = << >>
    /\ rdStatus = [ovr |-> FALSE, ready |-> FALSE]

\* ------------------------------------------------- 10. SPI FIFO entries
\* Values of a byte of a chunk: no bit, the lowest bit, the highest bit, all.
ByteSamples == {0, 1, 128, 255}

\* words.chunks(3) yields slices of one to three bytes.
ChunkLens == 1 .. 3
Chunks == UNION {[1 .. k -> ByteSamples] : k \in ChunkLens}

\* A u32 as its four bytes, byte 0 the least significant.
Lanes == 0 .. 3
ZeroEntry == [l \in Lanes |-> 0]

\* a | b on bytes
RECURSIVE BitOr(_, _)
BitOr(a, b) ==
    IF a = 0 THEN b
    ELSE IF b = 0 THEN a
    ELSE (IF a % 2 = 1 \/ b % 2 = 1 THEN 1 ELSE 0) + 2 * BitOr(a \div 2, b \div 2)

\* entry |= (byte as u32) << shift, for a shift of 0, 8, 16 or 24
OrShifted(entry, byte, shift) ==
    [entry EXCEPT ![shift \div 8] = BitOr(@, byte)]

\* The shift of byte i (from 0) of the slice in each branch of to_entry.
MsShift(len, i) == (len - i) * 8
LsShift(len, i) == i * 8

\* The for loops of to_entry, from byte i (from 0) on.
RECURSIVE ToEntryLoop(_, _, _, _)
ToEntryLoop(slice, ms_bit_first, i, entry) ==
    IF i >= Len(slice) THEN entry
    ELSE ToEntryLoop(slice, ms_bit_first, i + 1,
             OrShifted(entry, slice[i + 1],
                       IF ms_bit_first THEN MsShift(Len(slice), i)
                       ELSE LsShift(Len(slice), i)))

\* fn to_entry(slice: &[u8], ms_bit_first: bool) -> u32
to_entry(slice, ms_bit_first) ==
    OrShifted(ToEntryLoop(slice, ms_bit_first, 0, ZeroEntry), Len(slice), 24)

\* A caller builds the entry of a chunk.
ToEntryCall(slice, ms_bit_first) ==
    lastEntry' = [ev |-> TRUE, slice |-> slice, ms_bit_first |-> ms_bit_first,
                  entry |-> to_entry(slice, ms_bit_first)]

\* fn from_entry(slice: &mut [u8], entry: u32, ms_bit_first: bool): the bytes
\* a slice of len bytes holds afterwards; `(entry >> shift) as u8` is the
\* byte of the entry at that shift.
from_entry(len, entry, ms_bit_first) ==
    [k \in 1 .. len |->
        entry[(IF ms_bit_first THEN MsShift(len, k - 1) ELSE LsShift(len, k - 1)) \div 8]]

\* A caller decodes the entry just built into a slice of the same length,
\* with the same bit order.
FromEntryCall ==
    /\ lastEntry.ev /\ "back" \notin DOMAIN lastEntry
    /\ lastEntry' = [ev |-> TRUE, slice |-> lastEntry.slice,
                     ms_bit_first |-> lastEntry.ms_bit_first,
                     entry |-> lastEntry.entry,
                     back |-> from_entry(Len(lastEntry.slice), lastEntry.entry,
                                         lastEntry.ms_bit_first)]

EntryInit == lastEntry = NoEvent

\* ------------------------------------------------- 11. SPI write
\* Bytes of the longest write.
MaxWords == 7

\* pub const SPI1: *mut u32 = 0x20215080 as _
SPI1 == 539054208

\* registers.rs: CONTROL0, CONTROL1, STATUS, IO, TXHOLD
Reg == [CONTROL0 |-> 0, CONTROL1 |-> 4, STATUS |-> 8, IO |-> 32, TXHOLD |-> 48]

\* SPI1.add(count): a *mut u32 advances by count elements of four bytes.
PtrAdd(ptr, cnt) == ptr + 4 * cnt

\* The register of the device behind a byte address (BCM2835 manual pages
\* 22 to 27, the pages registers.rs cites): CNTL0, CNTL1, STAT and PEEK at
\* byte offsets 0x00, 0x04, 0x08 and 0x0C of the block, IO at 0x20 to 0x2C,
\* TXHOLD at 0x30 to 0x3C.
HwReg(addr) ==
    IF addr = SPI1 THEN "CNTL0"
    ELSE IF addr = SPI1 + 4 THEN "CNTL1"
    ELSE IF addr = SPI1 + 8 THEN "STAT"
    ELSE IF addr = SPI1 + 12 THEN "PEEK"
    ELSE IF addr \in {SPI1 + 32, SPI1 + 36, SPI1 + 40, SPI1 + 44} THEN "IO"
    ELSE IF addr \in {SPI1 + 48, SPI1 + 52, SPI1 + 56, SPI1 + 60} THEN "TXHOLD"
    ELSE "none"

\* The TX FIFO is four entries deep.
TxFifoDepth == 4

\* What `read_volatile() >> 10 & 1` can give at an address: TX-full if the
\* address is the status register, any bit of the word read otherwise.
Bit10At(addr) ==
    IF HwReg(addr) = "STAT" THEN {Len(txFifo) = TxFifoDepth} ELSE BOOLEAN

\* chunk number i (from 0) of words.chunks(3)
Chunk(i) ==
    SubSeq(words, 3 * i + 1, IF 3 * i + 3 < Len(words) THEN 3 * i + 3 ELSE Len(words))

\* words.chunks(3).len()
NumChunks == (Len(words) + 2) \div 3

\* blocking write: `(index + 1) * 3 >= words.len()`
BlockingLast == (index + 1) * 3 >= Len(words)

\* WriteFut::poll: `self.chunks.len() == 0` after chunks.next()
AsyncLast == NumChunks - (index + 1) = 0

\* write, or the first poll of the WriteFut the async write builds after its
\* flush, with n bytes.
SpiWriteCall(n, async, msb) ==
    /\ spiPc = "idle"
    /\ words' = [i \in 1 .. n |-> i]
    /\ spiAsync' = async
    /\ spiMsb' = msb
    /\ spiPc' = "run"
    /\ index' = 0
    /\ txFifo' = << >>
    /\ strayWrites' = << >>
    /\ txIrq' = FALSE

\* write_volatile(entry) at SPI1.add(reg): the device takes the entry into
\* the TX FIFO if the address is one of IO or TXHOLD.
SpiWriteEntry(reg, sawClear) ==
    LET addr == PtrAdd(SPI1, reg)
        entry == to_entry(Chunk(index), spiMsb)
    IN  IF HwReg(addr) \in {"IO", "TXHOLD"}
        THEN /\ txFifo' = Append(txFifo, [reg |-> HwReg(addr), chunk |-> index + 1,
                                          entry |-> entry, sawClear |-> sawClear])
             /\ UNCHANGED strayWrites
        ELSE /\ strayWrites' = Append(strayWrites, [addr |-> addr, chunk |-> index + 1,
                                                    entry |-> entry])
             /\ UNCHANGED txFifo

\* One iteration of the loop of the blocking write: `while STATUS >> 10 & 1
\* == 1 {}`, then the write of the entry to IO (last chunk) or TXHOLD.
SpiBlockingStep ==
    /\ spiPc = "run" /\ ~spiAsync
    /\ \E full \in Bit10At(PtrAdd(SPI1, Reg.STATUS)) :
          IF full
          THEN UNCHANGED << spiPc, index, txFifo, strayWrites >>
          ELSE /\ SpiWriteEntry(IF BlockingLast THEN Reg.IO ELSE Reg.TXHOLD,
                                HwReg(PtrAdd(SPI1, Reg.STATUS)) = "STAT")
               /\ index' = index + 1
               /\ spiPc' = IF BlockingLast THEN "done" ELSE "run"
    /\ UNCHANGED << words, spiAsync, spiMsb, txIrq >>

\* One iteration of the loop of WriteFut::poll: `while STATUS >> 10 & 1 ==
\* 0 { write the next chunk }`, Ready after the last chunk; else set the
\* waker, set CONTROL1 bit 7 and return Pending.
SpiPollStep ==
    /\ spiPc = "run" /\ spiAsync
    /\ \E full \in Bit10At(PtrAdd(SPI1, Reg.STATUS)) :
          IF full
          THEN /\ spiPc' = "pending"
               /\ txIrq' = (txIrq \/ HwReg(PtrAdd(SPI1, Reg.CONTROL1)) = "CNTL1")
               /\ UNCHANGED << index, txFifo, strayWrites >>
          ELSE /\ SpiWriteEntry(IF AsyncLast THEN Reg.IO ELSE Reg.TXHOLD,
                                HwReg(PtrAdd(SPI1, Reg.STATUS)) = "STAT")
               /\ index' = index + 1
               /\ spiPc' = IF AsyncLast THEN "done" ELSE "run"
               /\ UNCHANGED txIrq
    /\ UNCHANGED << words, spiAsync, spiMsb >>

\* The executor polls the pending WriteFut again.
SpiRepoll ==
    /\ spiPc = "pending"
    /\ spiPc' = "run"
    /\ UNCHANGED << words, spiAsync, spiMsb, index, txFifo, strayWrites, txIrq >>

\* The write returned Ok(()); the caller goes on.
SpiReturn ==
    /\ spiPc = "done"
    /\ spiPc' = "idle"
    /\ UNCHANGED << words, spiAsync, spiMsb, index, txFifo, strayWrites, txIrq >>

SpiInit ==
    /\ words = << >>
    /\ spiAsync = FALSE
    /\ spiMsb = FALSE
    /\ spiPc = "idle"
    /\ index = 0
    /\ txFifo = << >>
    /\ strayWrites = << >>
    /\ txIrq = FALSE

\* ------------------------------------------------- 12. serial boot
\* The longest binary file of the model, and the values of its bytes.
MaxBinary == 3
BinaryBytes == {0, 255}
Binaries == UNION {[1 .. n -> BinaryBytes] : n \in 0 .. MaxBinary}

\* Stray bytes a line can show to the host before the device is ready.
GlitchBytes == {0, 85}

\* u32::to_le_bytes
to_le_bytes(n) ==
    << n % 256, (n \div 256) % 256, (n \div 65536) % 256, (n \div 16777216) % 256 >>

\* u32::to_be_bytes
to_be_bytes(n) ==
    << (n \div 16777216) % 256, (n \div 65536) % 256, (n \div 256) % 256, n % 256 >>

\* u32::from_le_bytes
from_le_bytes(b) == b[1] + 256 * b[2] + 65536 * b[3] + 16777216 * b[4]

\* binary_size.to_le_bytes() of the host
HostSizeBytes(n) == to_le_bytes(n)

\* Power-on of the device with one of the two first stages of the
\* repository.  src/bin/bootloader.rs: `loop {}`.  bootloader/src/main.rs:
\* MiniUart::get, bit mode, baud rate, pins, transmitter, receiver (its
\* enabling clears the receive FIFO), all before the first byte is sent.
DevBoot(fw) ==
    /\ devPc = "off"
    /\ firmware' = fw
    /\ devPc' = IF fw = "bin" THEN "spin" ELSE "ready"
    /\ toDev' = IF fw = "bin" THEN toDev ELSE << >>
    /\ UNCHANGED << hostPc, toHost, ready_buf, binary, hostWire, binary_size_bytes,
                    binary_size, loaded, ffSent, devReads, glitched >>

\* rx_tx.send_blocking([0xff].into_iter())
DevSendReady ==
    /\ devPc = "ready"
    /\ toHost' = Append(toHost, 255)
    /\ ffSent' = ffSent + 1
    /\ devPc' = "size"
    /\ UNCHANGED << firmware, hostPc, toDev, ready_buf, binary, hostWire,
                    binary_size_bytes, binary_size, loaded, devReads, glitched >>

\* One byte of rx_tx.receive_exact(&mut binary_size_bytes); after the
\* fourth, binary_size = u32::from_le_bytes(..), and with a size of zero the
\* loop is skipped and the kernel is called.
DevReadSize ==
    /\ devPc = "size" /\ toDev # << >>
    /\ toDev' = Tail(toDev)
    /\ devReads' = devReads + 1
    /\ binary_size_bytes' = Append(binary_size_bytes, Head(toDev))
    /\ IF Len(binary_size_bytes) = 3
       THEN /\ binary_size' = from_le_bytes(binary_size_bytes')
            /\ devPc' = IF binary_size' > 0 THEN "load" ELSE "kernel"
       ELSE UNCHANGED << binary_size, devPc >>
    /\ UNCHANGED << firmware, hostPc, toHost, ready_buf, binary, hostWire, loaded,
                    ffSent, glitched >>

\* One iteration of `while binary_size > 0`: receive one byte, store it at
\* dest_ptr, advance; after the last, drop(rx_tx) and call the kernel.
DevLoadByte ==
    /\ devPc = "load" /\ toDev # << >>
    /\ toDev' = Tail(toDev)
    /\ devReads' = devReads + 1
    /\ loaded' = Append(loaded, Head(toDev))
    /\ binary_size' = binary_size - 1
    /\ devPc' = IF binary_size - 1 > 0 THEN "load" ELSE "kernel"
    /\ UNCHANGED << firmware, hostPc, toHost, ready_buf, binary, hostWire,
                    binary_size_bytes, ffSent, glitched >>

\* port.read_exact(&mut ready_buf) gets a byte; assert_eq!(ready_buf[0], 0xff)
HostRead ==
    /\ hostPc = "wait" /\ toHost # << >>
    /\ ready_buf' = Head(toHost)
    /\ toHost' = Tail(toHost)
    /\ hostPc' = IF Head(toHost) = 255 THEN "ready" ELSE "aborted"
    /\ UNCHANGED << firmware, devPc, toDev, binary, hostWire, binary_size_bytes,
                    binary_size, loaded, ffSent, devReads, glitched >>

\* port.read_exact fails after the timeout of 60 seconds: expect panics.
HostTimeout ==
    /\ hostPc = "wait" /\ toHost = << >>
    /\ hostPc' = "aborted"
    /\ UNCHANGED << firmware, devPc, toHost, toDev, ready_buf, binary, hostWire,
                    binary_size_bytes, binary_size, loaded, ffSent, devReads,
                    glitched >>

\* std::fs::read(binary_name), then port.write_all(&binary_size.to_le_bytes())
HostSendSize(bin) ==
    /\ hostPc = "ready"
    /\ binary' = bin
    /\ toDev' = toDev \o HostSizeBytes(Len(bin))
    /\ hostWire' = hostWire \o HostSizeBytes(Len(bin))
    /\ hostPc' = "payload"
    /\ UNCHANGED << firmware, devPc, toHost, ready_buf, binary_size_bytes, binary_size,
                    loaded, ffSent, devReads, glitched >>

\* port.write_all(&binary)
HostSendPayload ==
    /\ hostPc = "payload"
    /\ toDev' = toDev \o binary
    /\ hostWire' = hostWire \o binary
    /\ hostPc' = "sent"
    /\ UNCHANGED << firmware, devPc, toHost, ready_buf, binary, binary_size_bytes,
                    binary_size, loaded, ffSent, devReads, glitched >>

\* Hardware: the line shows one stray byte to the host while the device has
\* sent nothing yet.
HwLineGlitch(b) ==
    /\ ~glitched /\ ffSent = 0 /\ hostPc = "wait"
    /\ glitched' = TRUE
    /\ toHost' = Append(toHost, b)
    /\ UNCHANGED << firmware, devPc, hostPc, toDev, ready_buf, binary, hostWire,
                    binary_size_bytes, binary_size, loaded, ffSent, devReads >>

BootInit ==
    /\ firmware = "off"
    /\ devPc = "off"
    /\ hostPc = "wait"
    /\ toHost = << >>
    /\ toDev = << >>
    /\ ready_buf = 0
    /\ binary = << >>
    /\ hostWire = << >>
    /\ binary_size_bytes = << >>
    /\ binary_size = 0
    /\ loaded = << >>
    /\ ffSent = 0
    /\ devReads = 0
    /\ glitched = FALSE

\* ------------------------------------------------- 13. waker cells
\* Wakers cloned into the cell in one behaviour.
MaxClones == 4

\* The wakers a caller passes: a task and the data pointer of its RawWaker
\* (one task can hand out wakers with different data).
WakerRefs == [task : {1, 2}, data : {1, 2}]

\* Waker::will_wake: the two wakers have the same data and vtable.
will_wake(w, waker_ref) == w.task = waker_ref.task /\ w.data = waker_ref.data

\* waker.filter(|w| w.will_wake(waker_ref)).unwrap_or_else(|| waker_ref.clone())
ToSetKeepOld(waker, waker_ref, id) ==
    IF waker # None THEN waker
    ELSE [task |-> waker_ref.task, data |-> waker_ref.data, id |-> id]
to_set(waker, waker_ref, id) ==
    IF waker # None /\ will_wake(waker, waker_ref) THEN waker
    ELSE [task |-> waker_ref.task, data |-> waker_ref.data, id |-> id]

\* fn set_waker(slot, waker_ref, cs) -> bool
set_waker(waker_ref) ==
    /\ clones < MaxClones
    /\ wslot' = to_set(wslot, waker_ref, clones + 1)
    /\ clones' = IF wslot' = wslot THEN clones ELSE clones + 1
    /\ lastW' = [op |-> "set", before |-> wslot, waker |-> waker_ref,
                 ret |-> wslot # None]
    /\ UNCHANGED invoked

\* fn wake(slot, cs)
wake ==
    /\ wslot' = None
    /\ invoked' = IF wslot # None THEN [invoked EXCEPT ![wslot.id] = @ + 1] ELSE invoked
    /\ lastW' = [op |-> "wake", before |-> wslot, invoked |-> invoked]
    /\ UNCHANGED clones

WakerInit ==
    /\ wslot = None
    /\ clones = 0
    /\ invoked = [i \in 1 .. MaxClones + 1 |-> 0]
    /\ lastW = [op |-> "none"]

\* ------------------------------------------------- 14. the #[main] macro
\* The items the attribute is put on, by what the macro looks at: whether
\* the item is a function, the parts of its syn::Signature, and its where
\* clause (part of Signature::generics).
ReturnTypes == {"default", "never", "unit"}
Items ==
    [is_fn : BOOLEAN, constness : BOOLEAN, asyncness : BOOLEAN, unsafety : BOOLEAN,
     abi : BOOLEAN, generic_params : BOOLEAN, where_clause : BOOLEAN,
     inputs : BOOLEAN, variadic : BOOLEAN, output : ReturnTypes]

\* fn modify_fn(ItemFn) -> Result<TokenStream, Error>: the checks in order,
\* then the quote! of attrs, export_name, vis, constness, fn, ident, (),
\* output and block; generics is bound by the pattern and not emitted.
modify_fn(item) ==
    IF item.asyncness THEN [ok |-> FALSE, error |-> "main function cannot be async"]
    ELSE IF item.unsafety THEN [ok |-> FALSE, error |-> "main function cannot be unsafe"]
    ELSE IF item.abi THEN [ok |-> FALSE, error |-> "main function must use the default ABI"]
    ELSE IF item.generic_params
    THEN [ok |-> FALSE, error |-> "main function cannot have generic parameters"]
    ELSE IF item.inputs THEN [ok |-> FALSE, error |-> "main function cannot have parameters"]
    ELSE IF item.variadic THEN [ok |-> FALSE, error |-> "main function cannot be variadic"]
    ELSE IF item.output = "default"
    THEN [ok |-> FALSE, error |-> "main function must never return"]
    ELSE IF item.output # "never"
    THEN [ok |-> FALSE, error |-> "main function return type must be never"]
    ELSE [ok |-> TRUE, export_name |-> "_main",
          emitted |-> [is_fn |-> TRUE, constness |-> item.constness,
                       asyncness |-> FALSE, unsafety |-> FALSE, abi |-> FALSE,
                       generic_params |-> FALSE, where_clause |-> FALSE,
                       inputs |-> FALSE, variadic |-> FALSE, output |-> item.output]]

\* pub fn main(args, input) -> TokenStream
main(args, item) ==
    IF args THEN [ok |-> FALSE, error |-> "this macro takes no arguments"]
    ELSE IF ~item.is_fn THEN [ok |-> FALSE, error |-> "parse error"]
    ELSE modify_fn(item)

\* The compiler expands #[main(args)] on an item.  An item that is no
\* function has no signature.
MainExpand(args, item) ==
    /\ item.is_fn \/ item = [is_fn |-> FALSE, constness |-> FALSE, asyncness |-> FALSE,
                             unsafety |-> FALSE, abi |-> FALSE,
                             generic_params |-> FALSE, where_clause |-> FALSE,
                             inputs |-> FALSE, variadic |-> FALSE, output |-> "default"]
    /\ lastMain' = [ev |-> TRUE, args |-> args, item |-> item,
                    result |-> main(args, item)]

MacroInit == lastMain = NoEvent

\* ------------------------------------------------- 15. from reset to Executor::run
\* The boot stub: the core leaves reset with IRQs masked, and the stub keeps
\* them masked while it sets up the modes and stacks and calls first_stage.
RunReset ==
    /\ runPc = "reset"
    /\ cpsr_i' = TRUE
    /\ runPc' = "first_stage"
    /\ UNCHANGED << execVars, swapOld, swapped, pendedSince, released >>

\* first_stage: critical_section::with(aux::setup); interrupt::setup(), which
\* writes ENABLE_IRQS_1 and ENABLE_IRQS_2 only; then main().
RunFirstStage ==
    /\ runPc = "first_stage"
    /\ cpsr_i' = release(acquire(cpsr_i).restore, acquire(cpsr_i).i)
    /\ runPc' = "main"
    /\ UNCHANGED << execVars, swapOld, swapped, pendedSince, released >>

\* The user's main calls Executor::run; before that it may have called the
\* unsafe interrupt::enable().
RunMain(enable) ==
    /\ runPc = "main"
    /\ cpsr_i' = IF enable THEN FALSE ELSE cpsr_i
    /\ runPc' = "run"
    /\ UNCHANGED << execVars, swapOld, swapped, pendedSince, released >>

\* A step of the hardware, of the interrupt handler or of Executor::run that
\* is no swap, calls no __pender and ends no critical section.
RunPlain(Step) ==
    /\ runPc = "run"
    /\ Step
    /\ UNCHANGED runVars

\* A step that wakes the tasks `woken`: each wake calls __pender.
RunWaking(Step, woken) ==
    /\ runPc = "run"
    /\ Step
    /\ pendedSince' = (pendedSince \/ woken # {})
    /\ UNCHANGED << runPc, swapOld, swapped, released >>

RunSwap ==
    /\ runPc = "run"
    /\ ExecSwap
    /\ swapOld' = swap(WORK_SIGNALED).old
    /\ swapped' = TRUE
    /\ pendedSince' = FALSE
    /\ UNCHANGED << runPc, released >>

RunRelease ==
    /\ runPc = "run"
    /\ ExecRelease
    /\ released' = TRUE
    /\ UNCHANGED << runPc, swapOld, swapped, pendedSince >>

RunInit ==
    /\ runPc = "reset"
    /\ swapOld = FALSE
    /\ swapped = FALSE
    /\ pendedSince = FALSE
    /\ released = FALSE

\* ------------------------------------------------- 16. interrupt dispatch
\* Interrupts the sources raise in one behaviour of the model.
MaxRaises == 4

\* IRQ numbers of the model: the four of the source tables (system timer
\* compare 1 and 3, GPIO bank 0 and 1), system timer compare 0 (used by the
\* firmware) and the UART (57), which are in no table.
IrqNumbers == {0, 1, 3, 49, 50, 57}

\* INTERRUPT_SOURCES1 and INTERRUPT_SOURCES2: the `bit` of each descriptor,
\* in table order.
DescriptorBits1 == << 1, 3 >>
INTERRUPT_SOURCES2 == << 49, 50 >>
SourceTable(bank) == IF bank = 1 THEN DescriptorBits1 ELSE INTERRUPT_SOURCES2

\* IRQs of bank 1 and 2 that the controller shows in IRQ_BASIC_PENDING bits
\* 10..20 and leaves out of the summary bits 8 and 9.
BasicMirrored == {7, 9, 10, 18, 19, 53, 54, 55, 56, 57, 62}

\* Hardware: IRQ_PENDING_1, IRQ_PENDING_2 as the set of their 1 bits.
PendingWord(bank) ==
    IF bank = 1 THEN {n \in srcPending : n < 32}
    ELSE {n - 32 : n \in {m \in srcPending : m >= 32}}

\* Hardware: bits 8 and 9 of IRQ_BASIC_PENDING.
BasicPendingWord ==
    {b \in {8, 9} : \E n \in srcPending \ BasicMirrored :
                        IF b = 8 THEN n < 32 ELSE n >= 32}

\* Mutant of SummaryBit: bit 8 is tested for both banks.
SummaryBitAlways8(bank) == 8

\* `basic_pending & (1 << 8)` for pending register 1, `(1 << 9)` for 2.
SummaryBit(bank) == IF bank = 1 THEN 8 ELSE 9

\* `1 << bit` for table 1, `1 << (bit - 32)` for table 2.
WordBit(bank, bit) == IF bank = 1 THEN bit ELSE bit - 32

\* setup(): ENABLE_IRQS_1/2 get the bits of the two tables.
IrqsEnabled ==
    {DescriptorBits1[k] : k \in 1..Len(DescriptorBits1)}
        \cup {INTERRUPT_SOURCES2[k] : k \in 1..Len(INTERRUPT_SOURCES2)}

\* Hardware: a source raises its interrupt.
HwRaise(n) ==
    /\ n \notin srcPending /\ raises < MaxRaises
    /\ srcPending' = srcPending \cup {n}
    /\ raises' = raises + 1
    /\ UNCHANGED << cpsr_i, dpc, dk, basic_pending, pending_irqs, hact, hcs, calls,
                    wordRead, reentered >>

\* The core takes the IRQ when the I-bit is clear and an enabled source is
\* pending; it masks IRQs and enters interrupt_handler.
DispEntry ==
    /\ ~cpsr_i /\ srcPending \cap IrqsEnabled # {}
    /\ cpsr_i' = TRUE
    /\ IF dpc = "idle"
       THEN /\ dpc' = "basic"
            /\ calls' = [n \in IrqsEnabled |-> 0]
            /\ wordRead' = [b \in 1..2 |-> {}]
            /\ UNCHANGED reentered
       ELSE /\ reentered' = TRUE
            /\ UNCHANGED << dpc, calls, wordRead >>
    /\ UNCHANGED << srcPending, dk, basic_pending, pending_irqs, hact, hcs, raises >>

\* let basic_pending = IRQ_BASIC_PENDING.read_volatile()
DispReadBasic ==
    /\ dpc = "basic" /\ cpsr_i
    /\ basic_pending' = BasicPendingWord
    /\ dpc' = "bank1" /\ dk' = 0
    /\ UNCHANGED << cpsr_i, srcPending, pending_irqs, hact, hcs, calls, wordRead,
                    reentered, raises >>

AfterBank(bank) == IF bank = 1 THEN "bank2" ELSE "ret"

\* if basic_pending & (1 << 8|9) != 0 { let pending_irqs = IRQ_PENDING_n ... }
DispReadWord(bank) ==
    /\ dpc = IF bank = 1 THEN "bank1" ELSE "bank2"
    /\ dk = 0 /\ hact = {}
    /\ IF SummaryBit(bank) \in basic_pending
       THEN /\ pending_irqs' = PendingWord(bank)
            /\ wordRead' = [wordRead EXCEPT ![bank] = PendingWord(bank)]
            /\ dk' = 1
            /\ UNCHANGED dpc
       ELSE /\ dpc' = AfterBank(bank)
            /\ UNCHANGED << pending_irqs, wordRead, dk >>
    /\ UNCHANGED << cpsr_i, srcPending, basic_pending, hact, hcs, calls, reentered,
                    raises >>

\* for InterruptDescriptor { bit, handler } in INTERRUPT_SOURCESn {
\*     if pending_irqs & (1 << bit) != 0 { handler() } }
DispSource(bank) ==
    /\ dpc = IF bank = 1 THEN "bank1" ELSE "bank2"
    /\ dk >= 1 /\ hact = {}
    /\ IF dk > Len(SourceTable(bank))
       THEN /\ dpc' = AfterBank(bank) /\ dk' = 0
            /\ UNCHANGED << hact, calls >>
       ELSE LET bit == SourceTable(bank)[dk] IN
            /\ dk' = dk + 1
            /\ UNCHANGED dpc
            /\ IF WordBit(bank, bit) \in pending_irqs
               THEN /\ hact' = {bit}
                    /\ calls' = [calls EXCEPT ![bit] = @ + 1]
               ELSE UNCHANGED << hact, calls >>
    /\ UNCHANGED << cpsr_i, srcPending, basic_pending, pending_irqs, hcs, wordRead,
                    reentered, raises >>

\* A handler of the tables acknowledges its source in the peripheral
\* (alarm_interrupt writes SYSTEM_TIME_CS, the GPIO handlers write the event
\* detect status).
HandlerAck ==
    /\ hact \cap srcPending # {}
    /\ srcPending' = srcPending \ hact
    /\ UNCHANGED << cpsr_i, dpc, dk, basic_pending, pending_irqs, hact, hcs, calls,
                    wordRead, reentered, raises >>

\* critical_section::with inside a handler: alarm_interrupt opens one and
\* calls set_alarm inside it, which opens its own; the GPIO handlers open one.
HandlerAcquire ==
    /\ hact # {} /\ Len(hcs) < MaxNest
    /\ hcs' = Append(hcs, acquire(cpsr_i).restore)
    /\ cpsr_i' = acquire(cpsr_i).i
    /\ UNCHANGED << srcPending, dpc, dk, basic_pending, pending_irqs, hact, calls,
                    wordRead, reentered, raises >>

HandlerRelease ==
    /\ hact # {} /\ hcs # << >>
    /\ cpsr_i' = release(hcs[Len(hcs)], cpsr_i)
    /\ hcs' = SubSeq(hcs, 1, Len(hcs) - 1)
    /\ UNCHANGED << srcPending, dpc, dk, basic_pending, pending_irqs, hact, calls,
                    wordRead, reentered, raises >>

\* The handler returns to the loop over the table.
HandlerReturn ==
    /\ hact # {} /\ hcs = << >>
    /\ hact' = {}
    /\ UNCHANGED << cpsr_i, srcPending, dpc, dk, basic_pending, pending_irqs, hcs,
                    calls, wordRead, reentered, raises >>

\* interrupt_handler returns; the exception return restores the CPSR of the
\* interrupted code, whose I-bit was clear.
DispReturn ==
    /\ dpc = "ret"
    /\ dpc' = "idle"
    /\ cpsr_i' = FALSE
    /\ UNCHANGED << srcPending, dk, basic_pending, pending_irqs, hact, hcs, calls,
                    wordRead, reentered, raises >>

IrqInit ==
    /\ srcPending = {}
    /\ dpc = "idle" /\ dk = 0
    /\ basic_pending = {} /\ pending_irqs = {}
    /\ hact = {} /\ hcs = << >>
    /\ calls = [n \in IrqsEnabled |-> 0]
    /\ wordRead = [b \in 1..2 |-> {}]
    /\ reentered = FALSE
    /\ raises = 0

\* ------------------------------------------------- 17. the GPIO interrupt handlers
\* Pins of the model: two of bank 0 and one of bank 1.
DetPins == {0, 1, 32}

\* The six detect-enable registers, in the order of DetectState::all().
DetectRegisters == 1..6

\* DetectState values a Detector is created with: RISING_EDGE, HIGH | LOW,
\* and all six flags.
DetectStates == {{1}, {3, 4}, DetectRegisters}

\* Bank of a pin (PIN / 32) and its bit in the words of the bank (PIN % 32).
BankOf(pin) == pin \div 32
BitOf(pin) == pin % 32
PinAt(bank, bit_index) == 32 * bank + bit_index

\* Index in WAKER_SET the handler of a bank uses for a status bit:
\* WAKER_SET[bit_index] in interrupt_handler1 and in interrupt_handler2.
WakerIndex(bank, bit_index) == bit_index

\* status.view_bits::<Lsb0>().iter_ones() of the bank's status word.
StatusBits(bank) == {BitOf(q) : q \in {r \in detectStatus : BankOf(r) = bank}}

\* Detector::poll, first poll: the waker goes to WAKER_SET[PIN] and
\* setup_detection sets the pin's bit in the registers of `state`.
DetectorArm(pin, state) ==
    /\ WAKER_SET[pin] = 0 /\ detectEnable[pin] = {}
    /\ WAKER_SET' = [WAKER_SET EXCEPT ![pin] = 1]
    /\ detectEnable' = [detectEnable EXCEPT ![pin] = state]
    /\ lastGpioIsr' = NoEvent
    /\ UNCHANGED detectStatus

\* Hardware: an armed condition occurs on the pin.
HwDetect(pin) ==
    /\ detectEnable[pin] # {} /\ pin \notin detectStatus
    /\ detectStatus' = detectStatus \cup {pin}
    /\ lastGpioIsr' = NoEvent
    /\ UNCHANGED << detectEnable, WAKER_SET >>

\* interrupt_handler1 (bank 0) and interrupt_handler2 (bank 1), entered with
\* IRQs masked: for every set bit of the status word read, take the waker of
\* WAKER_SET[bit_index], clear the bit in the six enable registers of the
\* bank, write 1 << bit_index to the status word, wake the waker taken.
GpioInterruptHandler(bank) ==
    LET bits == StatusBits(bank)
        served == {PinAt(bank, b) : b \in bits}
        slots == {WakerIndex(bank, b) : b \in bits}
    IN /\ bits # {}
       /\ WAKER_SET' = [i \in DOMAIN WAKER_SET |->
                           IF i \in slots THEN 0 ELSE WAKER_SET[i]]
       /\ detectEnable' = [q \in DetPins |->
                              IF q \in served THEN detectEnable[q] \ DetectRegisters
                              ELSE detectEnable[q]]
       /\ detectStatus' = detectStatus \ served
       /\ lastGpioIsr' = [ev |-> TRUE, bank |-> bank, status |-> detectStatus,
                          enable |-> detectEnable, wakers |-> WAKER_SET,
                          woken |-> {i \in slots : WAKER_SET[i] # 0}]

GisrInit ==
    /\ detectEnable = [q \in DetPins |-> {}]
    /\ detectStatus = {}
    /\ WAKER_SET = [q \in DetPins |-> 0]
    /\ lastGpioIsr = NoEvent

\* ------------------------------------------------- 18. the async read_exact
\* Reader::read_exact(buf): ReadExactFut { buf_iter: buf.iter_mut() }.
ReadExactCall(len) ==
    /\ exPc = "none"
    /\ exPc' = "created"
    /\ exBuf' = [i \in 1..len |-> 0]
    /\ buf_iter' = 0
    /\ exTaken' = << >>
    /\ exPendings' = 0
    /\ UNCHANGED << rxFifo, rxOverrun, rxSent >>

\* The for loop of one poll, from the state of the iterator on:
\* `for byte in self.buf_iter.by_ref()` takes the next element, then the
\* status is read: overrun ends with Err, an empty FIFO ends the poll with
\* Pending (after set_waker and the write of INTERRUPT_ENABLE_REG), else
\* *byte = IO_REG.  Reading LINE_STATUS_REG clears the overrun bit.  When the iterator is exhausted the poll returns Ok.
\* Result: [pc, buf, iter, fifo, taken].
RECURSIVE ReadExactLoop(_, _, _, _)
ReadExactLoop(b, iter, fifo, taken) ==
    IF iter = Len(b)
    THEN [pc |-> "ok", buf |-> b, iter |-> iter, fifo |-> fifo, taken |-> taken]
    ELSE IF rxOverrun
    THEN [pc |-> "err", buf |-> b, iter |-> iter + 1, fifo |-> fifo, taken |-> taken]
    ELSE IF fifo = << >>
    THEN [pc |-> "pending", buf |-> b, iter |-> iter + 1, fifo |-> fifo,
          taken |-> taken]
    ELSE ReadExactLoop([b EXCEPT ![iter + 1] = Head(fifo)], iter + 1, Tail(fifo),
                       Append(taken, Head(fifo)))

\* The executor polls the future: the first poll, or a later one after a wake.
\* The bytes of one poll are read back to back.
ReadExactPoll ==
    /\ exPc \in {"created", "pending"}
    /\ LET r == ReadExactLoop(exBuf, buf_iter, rxFifo, exTaken) IN
        /\ exPc' = r.pc
        /\ exBuf' = r.buf
        /\ buf_iter' = r.iter
        /\ rxFifo' = r.fifo
        /\ exTaken' = r.taken
        /\ exPendings' = IF r.pc = "pending" THEN exPendings + 1 ELSE exPendings
    /\ rxOverrun' = (rxOverrun /\ buf_iter = Len(exBuf))
    /\ UNCHANGED rxSent

\* The task takes the result of the future.
ReadExactDone ==
    /\ exPc \in {"ok", "err"}
    /\ exPc' = "none"
    /\ UNCHANGED << exBuf, buf_iter, exTaken, exPendings, rxFifo, rxOverrun, rxSent >>

RexInit ==
    /\ exPc = "none"
    /\ exBuf = << >>
    /\ buf_iter = 0
    /\ exTaken = << >>
    /\ exPendings = 0

\* ------------------------------------------------- 19. SPI transfer_in_place
\* as_chunks_mut::<3>(words): the arrays of three bytes and the remainder, as
\* the index ranges of the buffer they cover.
as_chunks_mut(n) ==
    [arrays |-> [k \in 1..(n \div 3) |-> (3 * k - 2)..(3 * k)],
     rest |-> (3 * (n \div 3) + 1)..n]

\* words.chunks_mut(3): the index ranges of the chunks.
chunks_mut(n) ==
    [k \in 1..((n + 2) \div 3) |-> (3 * k - 2)..(IF 3 * k < n THEN 3 * k ELSE n)]

\* The bytes of the buffer at a range of indices, as a slice.
SliceAt(w, range) ==
    [i \in 1..Cardinality(range) |-> w[i + (CHOOSE m \in range : \A x \in range : m <= x) - 1]]
SliceOf(w, range) == IF range = {} THEN << >> ELSE SliceAt(w, range)

\* The range TransferInPlaceFut uses for index i (from 0): words.0[i] if there
\* is one, else words.1.
FutRange(n, i) ==
    IF i < Len(as_chunks_mut(n).arrays) THEN as_chunks_mut(n).arrays[i + 1]
    ELSE as_chunks_mut(n).rest

\* The entries the blocking transfer_in_place writes for a buffer: chunk by
\* chunk, through IO when `(index + 1) * 3 >= words_len`, else through TXHOLD.
BlockingEntries(w) ==
    [k \in 1..Len(chunks_mut(Len(w))) |->
        [reg |-> IF k * 3 >= Len(w) THEN "IO" ELSE "TXHOLD",
         slice |-> SliceOf(w, chunks_mut(Len(w))[k])]]

\* from_entry(slice, entry, ..) overwrites every byte of the slice; the bytes
\* are marked with the number of the entry read.
Overwrite(w, range, k) == [i \in 1..Len(w) |-> IF i \in range THEN 0 - k ELSE w[i]]

\* transfer_in_place(words) with n bytes, blocking or as the future built
\* after the flush, which leaves both FIFOs empty.
XferCall(n, async) ==
    /\ xfPc = "idle"
    /\ xfWords' = [i \in 1..n |-> i]
    /\ xfAsync' = async
    /\ xfPc' = IF async THEN "rx" ELSE "write"
    /\ tx_index' = 0 /\ rx_index' = 0
    /\ xfSent' = << >> /\ xfReads' = 0
    /\ devTx' = << >> /\ devRx' = << >>

\* Hardware: the device shifts the next TX entry out and the entry shifted
\* in goes to the RX FIFO.
HwSpiShift ==
    /\ devTx # << >> /\ Len(devRx) < TxFifoDepth
    /\ devTx' = Tail(devTx)
    /\ devRx' = Append(devRx, Head(devTx).reg)
    /\ UNCHANGED << xfWords, xfAsync, xfPc, tx_index, rx_index, xfSent, xfReads >>

\* Blocking loop, first half: entry = to_entry(chunk); write to IO or TXHOLD.
XferBlockingWrite ==
    /\ xfPc = "write"
    /\ LET e == BlockingEntries(xfWords)[tx_index + 1] IN
        /\ xfSent' = Append(xfSent, e)
        /\ devTx' = Append(devTx, e)
    /\ xfPc' = "wait"
    /\ UNCHANGED << xfWords, xfAsync, tx_index, rx_index, xfReads, devRx >>

\* Blocking loop, second half: while STATUS >> 7 & 1 == 1 {}; read IO;
\* from_entry(chunk, entry, in_ms_bit_first).
XferBlockingRead ==
    /\ xfPc = "wait"
    /\ devRx # << >>
    /\ devRx' = Tail(devRx)
    /\ xfReads' = xfReads + 1
    /\ xfWords' = Overwrite(xfWords, chunks_mut(Len(xfWords))[tx_index + 1], xfReads + 1)
    /\ tx_index' = tx_index + 1
    /\ xfPc' = IF tx_index + 1 = Len(chunks_mut(Len(xfWords))) THEN "done" ELSE "write"
    /\ UNCHANGED << xfAsync, rx_index, xfSent, devTx >>

\* TransferInPlaceFut::poll, the first loop and what follows it:
\* while STATUS >> 7 & 1 == 0 && rx_index <= words.0.len() { read IO;
\* from_entry; rx_index += 1 }; Ready if rx_index > words.0.len(); Pending
\* (CONTROL1 bit 6) if tx_index > words.0.len(); else the second loop.
XferPollRx ==
    /\ xfPc = "rx"
    /\ LET len0 == Len(as_chunks_mut(Len(xfWords)).arrays) IN
       IF devRx # << >> /\ rx_index <= len0
       THEN /\ devRx' = Tail(devRx)
            /\ xfReads' = xfReads + 1
            /\ xfWords' = Overwrite(xfWords, FutRange(Len(xfWords), rx_index),
                                    xfReads + 1)
            /\ rx_index' = rx_index + 1
            /\ UNCHANGED xfPc
       ELSE /\ xfPc' = IF rx_index > len0 THEN "done"
                       ELSE IF tx_index > len0 THEN "pending" ELSE "tx"
            /\ UNCHANGED << devRx, xfReads, xfWords, rx_index >>
    /\ UNCHANGED << xfAsync, tx_index, xfSent, devTx >>

\* The second loop: while STATUS >> 10 & 1 == 0 && tx_index <= words.0.len()
\* { entry = to_entry(words.0[tx_index] or words.1); write to TXHOLD if
\* tx_index < words.0.len(), else to IO; tx_index += 1 }; then Pending
\* (CONTROL1 bit 7).
XferPollTx ==
    /\ xfPc = "tx"
    /\ LET len0 == Len(as_chunks_mut(Len(xfWords)).arrays) IN
       IF Len(devTx) < TxFifoDepth /\ tx_index <= len0
       THEN LET e == [reg |-> IF tx_index < len0 THEN "TXHOLD" ELSE "IO",
                      slice |-> SliceOf(xfWords, FutRange(Len(xfWords), tx_index))]
            IN /\ xfSent' = Append(xfSent, e)
               /\ devTx' = Append(devTx, e)
               /\ tx_index' = tx_index + 1
               /\ UNCHANGED xfPc
       ELSE /\ xfPc' = "pending"
            /\ UNCHANGED << xfSent, devTx, tx_index >>
    /\ UNCHANGED << xfWords, xfAsync, rx_index, xfReads, devRx >>

\* The executor polls the pending future again.
XferRepoll ==
    /\ xfPc = "pending"
    /\ xfPc' = "rx"
    /\ UNCHANGED << xfWords, xfAsync, tx_index, rx_index, xfSent, xfReads, devTx,
                    devRx >>

\* The transfer returned Ok(()); the caller goes on.
XferReturn ==
    /\ xfPc = "done"
    /\ xfPc' = "idle"
    /\ UNCHANGED << xfWords, xfAsync, tx_index, rx_index, xfSent, xfReads, devTx,
                    devRx >>

XferInit ==
    /\ xfWords = << >> /\ xfAsync = FALSE /\ xfPc = "idle"
    /\ tx_index = 0 /\ rx_index = 0
    /\ xfSent = << >> /\ xfReads = 0
    /\ devTx = << >> /\ devRx = << >>

\* ------------------------------------------------- 20. Mini-UART Reader and Writer
\* const FIFO_SIZE: u32 = 8
FIFO_SIZE == 8

\* Tasks that poll the futures of the two halves.
HalfTasks == 1..NumTasks

\* Registers are kept as the set of their bits that are 1.
BitVal(reg, b) == IF b \in reg THEN 1 ELSE 0

\* reg << k on a u32: bits shifted past bit 31 are lost.
Shl(reg, k) == {b + k : b \in {x \in reg : x + k < 32}}

\* EXTRA_STATUS_REG as the hardware shows it (BCM2835 ARM Peripherals, page
\* 18): bit 1 space available, bit 3 transmitter idle, bit 5 transmit FIFO
\* full, bit 8 transmit FIFO empty, bit 9 transmitter done, bits 27:24 the
\* transmit FIFO level.
HwExtraStatus(level) ==
    (IF level < FIFO_SIZE THEN {1} ELSE {5})
        \cup (IF level = 0 THEN {3, 8, 9} ELSE {})
        \cup {24 + i : i \in {j \in 0..3 : (level \div (2 ^ j)) % 2 = 1}}

\* (status >> 24) & 0b1111
TransmitFifoLevel(status) ==
    BitVal(status, 24) + 2 * BitVal(status, 25) + 4 * BitVal(status, 26)
        + 8 * BitVal(status, 27)

\* The test of the three flushes: (EXTRA_STATUS_REG << 8) & 1 == 0
FlushWaits(status) == 0 \notin Shl(status, 8)

\* Reader::get and Writer::get: if control_reg & 0b11 != 0 { return None }
HalfTaken(control_reg) == control_reg \cap {0, 1} # {}

NoHalfOp == [op |-> "none"]

\* Reader::get: None when taken, else control_reg | 1.
ReaderGet ==
    /\ flushPc = "idle"
    /\ controlReg' = IF HalfTaken(controlReg) THEN controlReg ELSE controlReg \cup {0}
    /\ readersLive' = IF HalfTaken(controlReg) THEN readersLive ELSE readersLive + 1
    /\ rxAvail' = (HalfTaken(controlReg) /\ rxAvail)
    /\ lastHalf' = [op |-> "reader_get", some |-> ~HalfTaken(controlReg),
                    readers |-> readersLive, writers |-> writersLive]
    /\ UNCHANGED << enableReg, writersLive, readerCell, WRITER_WAKER, txLevel, flushPc >>

\* Writer::get: None when taken, else control_reg | 0b10.
WriterGet ==
    /\ flushPc = "idle"
    /\ controlReg' = IF HalfTaken(controlReg) THEN controlReg ELSE controlReg \cup {1}
    /\ writersLive' = IF HalfTaken(controlReg) THEN writersLive ELSE writersLive + 1
    /\ txLevel' = IF HalfTaken(controlReg) THEN txLevel ELSE 0
    /\ lastHalf' = [op |-> "writer_get", some |-> ~HalfTaken(controlReg),
                    readers |-> readersLive, writers |-> writersLive]
    /\ UNCHANGED << enableReg, readersLive, readerCell, WRITER_WAKER, rxAvail, flushPc >>

\* Drop for Reader: control_reg & !1
ReaderDrop ==
    /\ flushPc = "idle"
    /\ readersLive > 0
    /\ controlReg' = controlReg \ {0}
    /\ readersLive' = readersLive - 1
    /\ lastHalf' = [op |-> "reader_drop", before |-> controlReg]
    /\ UNCHANGED << enableReg, writersLive, readerCell, WRITER_WAKER, txLevel, rxAvail,
                    flushPc >>

\* Drop for Writer: control_reg & !0b10
WriterDrop ==
    /\ writersLive > 0 /\ flushPc = "idle"
    /\ controlReg' = controlReg \ {1}
    /\ writersLive' = writersLive - 1
    /\ lastHalf' = [op |-> "writer_drop", before |-> controlReg]
    /\ UNCHANGED << enableReg, readersLive, readerCell, WRITER_WAKER, txLevel, rxAvail,
                    flushPc >>

\* ReadFut::poll on a buffer of one byte, by task t: the byte if there is
\* one, else set_waker, reg |= 0b1101, Pending.
HalfReadPoll(t) ==
    /\ flushPc = "idle"
    /\ readersLive > 0
    /\ IF rxAvail
       THEN /\ rxAvail' = FALSE
            /\ lastHalf' = [op |-> "read_poll", task |-> t, pending |-> FALSE]
            /\ UNCHANGED << readerCell, enableReg >>
       ELSE /\ readerCell' = t
            /\ enableReg' = enableReg \cup {0, 2, 3}
            /\ lastHalf' = [op |-> "read_poll", task |-> t, pending |-> TRUE]
            /\ UNCHANGED rxAvail
    /\ UNCHANGED << controlReg, readersLive, writersLive, WRITER_WAKER, txLevel, flushPc >>

\* WriteFut::poll on a buffer of len bytes, by task t: available = FIFO_SIZE -
\* transmit_fifo_level; if 0, set_waker, reg |= 0b1110, Pending; else
\* min(len, available) bytes go to IO_REG.
HalfWritePoll(t, len) ==
    /\ flushPc = "idle"
    /\ writersLive > 0
    /\ LET available == FIFO_SIZE - TransmitFifoLevel(HwExtraStatus(txLevel)) IN
       IF available = 0
       THEN /\ WRITER_WAKER' = t
            /\ enableReg' = enableReg \cup {1, 2, 3}
            /\ lastHalf' = [op |-> "write_poll", task |-> t, pending |-> TRUE]
            /\ UNCHANGED txLevel
       ELSE /\ txLevel' = txLevel + (IF len < available THEN len ELSE available)
            /\ lastHalf' = [op |-> "write_poll", task |-> t, pending |-> FALSE]
            /\ UNCHANGED << WRITER_WAKER, enableReg >>
    /\ UNCHANGED << controlReg, readersLive, writersLive, readerCell, rxAvail, flushPc >>

\* FlushFut::poll by task t: Pending with the waker stored and reg |= 0b1110
\* while the test says wait, else Ready.
HalfFlushPoll(t) ==
    /\ flushPc = "idle"
    /\ writersLive > 0
    /\ IF FlushWaits(HwExtraStatus(txLevel))
       THEN /\ WRITER_WAKER' = t
            /\ enableReg' = enableReg \cup {1, 2, 3}
            /\ lastHalf' = [op |-> "flush_poll", task |-> t, pending |-> TRUE,
                            level |-> txLevel]
       ELSE /\ lastHalf' = [op |-> "flush_poll", task |-> t, pending |-> FALSE,
                            level |-> txLevel]
            /\ UNCHANGED << WRITER_WAKER, enableReg >>
    /\ UNCHANGED << controlReg, readersLive, writersLive, readerCell, txLevel, rxAvail,
                    flushPc >>

\* hal_nb::serial::Write::flush: WouldBlock while the test says wait.
HalfNbFlush ==
    /\ flushPc = "idle"
    /\ writersLive > 0
    /\ lastHalf' = [op |-> "nb_flush", ok |-> ~FlushWaits(HwExtraStatus(txLevel)),
                    level |-> txLevel]
    /\ UNCHANGED << controlReg, enableReg, readersLive, writersLive, readerCell,
                    WRITER_WAKER, txLevel, rxAvail, flushPc >>

\* eio::Write::flush: one evaluation of the loop condition; the call returns
\* when the test says so.
HalfFlushSpin ==
    /\ writersLive > 0
    /\ flushPc' = IF FlushWaits(HwExtraStatus(txLevel)) THEN "spin" ELSE "idle"
    /\ lastHalf' = [op |-> "flush", ok |-> ~FlushWaits(HwExtraStatus(txLevel)),
                    level |-> txLevel]
    /\ UNCHANGED << controlReg, enableReg, readersLive, writersLive, readerCell,
                    WRITER_WAKER, txLevel, rxAvail >>

\* Mutant of EnableAfterIsr: the handler writes zero.
EnableAfterIsrZero(reg, bit) == {}

\* INTERRUPT_ENABLE_REG after a handler: reg &= !(1 << bit)
EnableAfterIsr(reg, bit) == reg \ {bit}

\* reader.rs interrupt_handler, entered when the receive interrupt is enabled
\* and a byte is held: reg &= !0b1; wake(&READER_WAKER).
HalfReaderIsr ==
    /\ 0 \in enableReg /\ rxAvail
    /\ enableReg' = EnableAfterIsr(enableReg, 0)
    /\ readerCell' = 0
    /\ lastHalf' = [op |-> "isr", bit |-> 0, before |-> enableReg, woke |-> readerCell]
    /\ UNCHANGED << controlReg, readersLive, writersLive, WRITER_WAKER, txLevel, rxAvail,
                    flushPc >>

\* writer.rs interrupt_handler, entered when the transmit interrupt is
\* enabled and the transmit FIFO is empty: reg &= !0b10; take and wake
\* WRITER_WAKER.
HalfWriterIsr ==
    /\ 1 \in enableReg /\ txLevel = 0
    /\ enableReg' = EnableAfterIsr(enableReg, 1)
    /\ WRITER_WAKER' = 0
    /\ lastHalf' = [op |-> "isr", bit |-> 1, before |-> enableReg, woke |-> WRITER_WAKER]
    /\ UNCHANGED << controlReg, readersLive, writersLive, readerCell, txLevel, rxAvail,
                    flushPc >>

\* Hardware: the transmitter sends a byte of the FIFO; the line delivers one.
HwHalfSend ==
    /\ txLevel > 0
    /\ txLevel' = txLevel - 1
    /\ lastHalf' = NoHalfOp
    /\ UNCHANGED << controlReg, enableReg, readersLive, writersLive, readerCell,
                    WRITER_WAKER, rxAvail, flushPc >>

HwHalfReceive ==
    /\ 0 \in controlReg /\ ~rxAvail
    /\ rxAvail' = TRUE
    /\ lastHalf' = NoHalfOp
    /\ UNCHANGED << controlReg, enableReg, readersLive, writersLive, readerCell,
                    WRITER_WAKER, txLevel, flushPc >>

\* After first_stage neither half is taken: both gets test the two enable
\* bits for zero.
HalfInit ==
    /\ controlReg = {} /\ enableReg = {}
    /\ readersLive = 0 /\ writersLive = 0
    /\ readerCell = 0 /\ WRITER_WAKER = 0
    /\ txLevel = 0 /\ rxAvail = FALSE
    /\ flushPc = "idle"
    /\ lastHalf = NoHalfOp

\* ------------------------------------------------- 21. SPI configuration
\* Config, the two fields that go to CONTROL1 bits 1 and 0
SpiConfigs == [in_most_significant_first : BOOLEAN, keep_input : BOOLEAN]

\* cntl1 = (extra_cs_high_time as u32) << 8 | (in_most_significant_first as
\* u32) << 1 | keep_input as u32, with extra_cs_high_time 0
Cntl1Word(config) ==
    (IF config.in_most_significant_first THEN {1} ELSE {})
        \cup (IF config.keep_input THEN {0} ELSE {})

\* What `SPI1.add(CONTROL1).read_volatile() & 1 != 0` can give: bit 0 of the
\* word written if the address is the register's, any value otherwise.
Cntl1Bit0 ==
    IF HwReg(cntl1.addr) = "CNTL1" THEN {0 \in cntl1.word} ELSE BOOLEAN

\* Spi1::get(miso, mosi, sclk, &config): None if AUX_ENABLES bit 1 is set,
\* else the writes of CONTROL0 and CONTROL1.
SpiGet(config) ==
    /\ xfPc = "idle" /\ ~spiHeld
    /\ spiHeld' = TRUE
    /\ spiConfig' = config
    /\ cntl1' = [addr |-> PtrAdd(SPI1, Reg.CONTROL1), word |-> Cntl1Word(config)]
    /\ UNCHANGED in_ms_bit_first

\* Drop for Spi1: AUX_ENABLES & !0b10
SpiDrop ==
    /\ xfPc = "idle" /\ spiHeld
    /\ spiHeld' = FALSE
    /\ UNCHANGED << spiConfig, cntl1, in_ms_bit_first >>

\* The start of the blocking transfer_in_place and of every poll of the
\* future: in_ms_bit_first = SPI1.add(CONTROL1).read_volatile() & 1 != 0
ReadInOrder ==
    /\ spiHeld
    /\ in_ms_bit_first' \in Cntl1Bit0
    /\ UNCHANGED << spiHeld, spiConfig, cntl1 >>

CfgInit ==
    /\ spiHeld = FALSE
    /\ spiConfig = [in_most_significant_first |-> FALSE, keep_input |-> FALSE]
    /\ cntl1 = [addr |-> PtrAdd(SPI1, Reg.CONTROL1), word |-> {}]
    /\ in_ms_bit_first = FALSE

\* ------------------------------------------------- 22. Pin::set_pull
\* for _ in 0..150 { spin_loop() }
SpinIterations == 150

\* Some(Pull::Up) => 0b10, Some(Pull::Down) => 0b01, None => 0b00
PullCode(pull) == IF pull = "Up" THEN 2 ELSE IF pull = "Down" THEN 1 ELSE 0

\* set_pull(pull), to the first wait: write_volatile(PULL_CONTROL, pull).
SetPullCall(pin, pull) ==
    /\ pullPc = "idle"
    /\ PULL_CONTROL' = PullCode(pull)
    /\ pullPin' = pin
    /\ pullSpins' = 0
    /\ pullLog' = << [reg |-> "PULL_CONTROL", val |-> PullCode(pull)] >>
    /\ pullPc' = "wait1"
    /\ UNCHANGED PULL_SET

\* One iteration of a wait loop, the last one ends the wait.
SetPullSpin ==
    /\ pullPc \in {"wait1", "wait2"}
    /\ IF pullSpins + 1 < SpinIterations
       THEN /\ pullSpins' = pullSpins + 1
            /\ UNCHANGED << pullPc, pullLog >>
       ELSE /\ pullSpins' = 0
            /\ pullPc' = IF pullPc = "wait1" THEN "mask" ELSE "clear"
            /\ pullLog' = Append(pullLog, [reg |-> "wait", val |-> SpinIterations])
    /\ UNCHANGED << PULL_CONTROL, PULL_SET, pullPin >>

\* double_register_op::<PIN>(PULL_SET_BASE, |addr, mask| write_volatile(addr,
\* mask)): the word PIN / 32 becomes 1 << (PIN % 32).
SetPullMask ==
    /\ pullPc = "mask"
    /\ PULL_SET' = [PULL_SET EXCEPT ![BankOf(pullPin)] = {BitOf(pullPin)}]
    /\ pullLog' = Append(pullLog, [reg |-> "PULL_SET", val |-> pullPin])
    /\ pullPc' = "wait2"
    /\ UNCHANGED << PULL_CONTROL, pullPin, pullSpins >>

\* After the second wait: write_volatile(PULL_CONTROL, 0), the last
\* statement of set_pull.
SetPullClear ==
    /\ pullPc = "clear"
    /\ PULL_CONTROL' = 0
    /\ pullLog' = Append(pullLog, [reg |-> "PULL_CONTROL", val |-> 0])
    /\ pullPc' = "done"
    /\ UNCHANGED << PULL_SET, pullPin, pullSpins >>

\* set_pull has returned; the caller goes on.
SetPullReturn ==
    /\ pullPc = "done"
    /\ pullPc' = "idle"
    /\ UNCHANGED << PULL_CONTROL, PULL_SET, pullPin, pullSpins, pullLog >>

PullInit ==
    /\ PULL_CONTROL = 0
    /\ PULL_SET = [bank \in 0..1 |-> {}]
    /\ pullPc = "idle" /\ pullPin = 0 /\ pullSpins = 0
    /\ pullLog = << >>

\* ------------------------------------------------- specifications
Init ==
    /\ cpsr_i = FALSE
    /\ TimerInit /\ NowInit /\ ExecInit /\ CsInit /\ GpioInit /\ AuxInit /\ DetInit
    /\ ReadInit /\ EntryInit /\ SpiInit /\ BootInit
    /\ WakerInit /\ MacroInit /\ RunInit /\ IrqInit /\ GisrInit
    /\ RexInit /\ XferInit /\ HalfInit
    /\ CfgInit /\ PullInit

TimerOnly ==
    UNCHANGED << nowVars, execVars, csVars, gpioVars, auxVars, detVars,
                 readVars, entryVars, spiVars, bootVars, wakerVars, macroVars,
                 runVars, irqVars, gisrVars, rexVars, xferVars, halfVars, cfgVars,
                 pullVars >>

TimerNext ==
    \/ TimerOnly /\ Tick
    \/ TimerOnly /\ AllocateAlarm
    \/ TimerOnly /\ \E h \in Handles : SetAlarmCallback(h)
    \/ TimerOnly /\ \E h \in Handles, t \in Deadlines : CallSetAlarm(h, t)
    \/ TimerOnly /\ SaCheck1
    \/ TimerOnly /\ SaClear1
    \/ TimerOnly /\ SaStore
    \/ TimerOnly /\ SaWrite
    \/ TimerOnly /\ SaCheck2
    \/ TimerOnly /\ SaRaceRead
    \/ TimerOnly /\ SaRaceWrite
    \/ TimerOnly /\ IrqEntry
    \/ TimerOnly /\ IsrRead
    \/ TimerOnly /\ IsrAck
    \/ TimerOnly /\ IsrLoop

SpecTimer == Init /\ [][TimerNext]_vars

NowOnly ==
    UNCHANGED << cpsr_i, cmp, csr, slot, frames, halted, handles, lastRet, cbSince,
                 armFar, lastCb, lastCall, execVars, csVars, gpioVars, auxVars,
                 detVars, readVars, entryVars, spiVars, bootVars, wakerVars,
                 macroVars, runVars, irqVars, gisrVars, rexVars, xferVars, halfVars,
                 cfgVars, pullVars >>

NowNext ==
    \/ NowOnly /\ NowTick /\ UNCHANGED nowVars
    \/ NowOnly /\ NowCall /\ UNCHANGED clk
    \/ NowOnly /\ NowReadHi /\ UNCHANGED clk
    \/ NowOnly /\ NowReadLo /\ UNCHANGED clk
    \/ NowOnly /\ NowCheck /\ UNCHANGED clk

SpecNow == Init /\ [][NowNext]_vars

ExecOnly ==
    UNCHANGED << timerVars, nowVars, csVars, gpioVars, auxVars, detVars,
                 readVars, entryVars, spiVars, bootVars, wakerVars, macroVars,
                 runVars, irqVars, gisrVars, rexVars, xferVars, halfVars, cfgVars,
                 pullVars >>

\* The steps of the interrupt handler over the executor.
ExecIsr ==
    \/ ExecOnly /\ ExecIrqEntry
    \/ ExecOnly /\ \E woken \in SUBSET Tasks : ExecIsrBody(woken)
    \/ ExecOnly /\ ExecIrqReturn

\* The steps of Executor::run.
ExecThread ==
    \/ ExecOnly /\ ExecPollBegin
    \/ ExecOnly /\ \E t \in Tasks, woken \in SUBSET Tasks : ExecPollTask(t, woken)
    \/ ExecOnly /\ ExecAcquire
    \/ ExecOnly /\ ExecSwap
    \/ ExecOnly /\ ExecWfi
    \/ ExecOnly /\ ExecRelease

ExecNext ==
    \/ ExecOnly /\ ExecIrqRaise
    \/ ExecIsr
    \/ ExecThread

SpecExec == Init /\ [][ExecNext]_vars

\* The core executes: an enabled step of the handler or of Executor::run is
\* taken.  The peripherals are free to stay silent.
SpecExecFair == SpecExec /\ WF_vars(ExecIsr) /\ WF_vars(ExecThread)

CsOnly ==
    UNCHANGED << timerVars, nowVars, gpioVars, auxVars, detVars, readVars,
                 entryVars, spiVars, epc, WORK_SIGNALED, runQueue, batch,
                 slept, restoreState, isrPc, irqCount, bootVars, wakerVars, macroVars,
                 runVars, irqVars, gisrVars, rexVars, xferVars, halfVars, cfgVars,
                 pullVars >>

CsNext ==
    \/ CsOnly /\ CsAcquireRead
    \/ CsOnly /\ CsAcquireMask
    \/ CsOnly /\ CsRelease
    \/ CsOnly /\ CsDisable
    \/ CsOnly /\ CsEnable
    \/ CsOnly /\ CsIrqRaise
    \/ CsOnly /\ CsIrqEntry
    \/ CsOnly /\ CsIrqAck
    \/ CsOnly /\ CsIrqReturn

SpecCS == Init /\ [][CsNext]_vars

GpioOnly ==
    UNCHANGED << cpsr_i, timerVars, nowVars, execVars, csVars, auxVars, detVars,
                 readVars, entryVars, spiVars, bootVars, wakerVars, macroVars,
                 runVars, irqVars, gisrVars, rexVars, xferVars, halfVars, cfgVars,
                 pullVars >>

GpioNext ==
    \/ GpioOnly /\ \E p \in PinNumbers, t \in PinTypes : PinGet(p, t)
    \/ GpioOnly /\ \E p \in PinNumbers : PinGetRejected(p)
    \/ GpioOnly /\ \E p \in PinNumbers : PinDrop(p)

SpecGpio == Init /\ [][GpioNext]_vars


AuxOnly ==
    UNCHANGED << timerVars, nowVars, execVars, csVars, gpioVars, detVars,
                 readVars, entryVars, spiVars, bootVars, wakerVars, macroVars,
                 runVars, irqVars, gisrVars, rexVars, xferVars, halfVars, cfgVars,
                 pullVars >>

\* The steps the core takes by itself once they are enabled: boot, the
\* interrupt handler, and the poll of a future that is due.
AuxCpu ==
    \/ AuxOnly /\ BootAuxSetup
    \/ AuxOnly /\ BootUartSetup
    \/ AuxOnly /\ BootIrqSetup
    \/ AuxOnly /\ AuxIrqTaken
    \/ AuxOnly /\ ReadFutPoll

AuxNext ==
    \/ AuxCpu
    \/ AuxOnly /\ UartGet
    \/ AuxOnly /\ UartGetUnchecked
    \/ AuxOnly /\ UartDrop
    \/ AuxOnly /\ \E b \in BaudSamples : SetBaudRate(b)
    \/ AuxOnly /\ ReadStart
    \/ AuxOnly /\ HwRxByte
    \/ AuxOnly /\ HwGpioEvent

SpecAux == Init /\ [][AuxNext]_vars

\* The core executes; the client and the peripherals are free to stay idle.
SpecAuxFair == SpecAux /\ WF_vars(AuxCpu)

DetOnly ==
    UNCHANGED << timerVars, nowVars, execVars, csVars, gpioVars, auxVars, readVars,
                 entryVars, spiVars, bootVars, wakerVars, macroVars, runVars, irqVars,
                 gisrVars, rexVars, xferVars, halfVars, cfgVars, pullVars >>

DetNext ==
    \/ DetOnly /\ DetCreate
    \/ DetOnly /\ DetPollReplace
    \/ DetOnly /\ DetPollFinish
    \/ DetOnly /\ DetDrop
    \/ DetOnly /\ HwPinEvent
    \/ DetOnly /\ DetIsr

SpecDet == Init /\ [][DetNext]_vars

ReadOnly ==
    UNCHANGED << cpsr_i, timerVars, nowVars, execVars, csVars, gpioVars, auxVars,
                 detVars, entryVars, spiVars, bootVars, wakerVars, macroVars, runVars,
                 irqVars, gisrVars, rexVars, xferVars, halfVars, cfgVars, pullVars >>

ReadNext ==
    \/ ReadOnly /\ \E len \in 0 .. MaxBuf : ReadCall(len)
    \/ ReadOnly /\ ReadLoop
    \/ ReadOnly /\ ReadReturn
    \/ ReadOnly /\ HwLineByte

SpecRead == Init /\ [][ReadNext]_vars

EntryOnly ==
    UNCHANGED << cpsr_i, timerVars, nowVars, execVars, csVars, gpioVars, auxVars,
                 detVars, readVars, spiVars, bootVars, wakerVars, macroVars, runVars,
                 irqVars, gisrVars, rexVars, xferVars, halfVars, cfgVars, pullVars >>

EntryNext ==
    \/ EntryOnly /\ \E slice \in Chunks, ms_bit_first \in BOOLEAN :
                        ToEntryCall(slice, ms_bit_first)
    \/ EntryOnly /\ FromEntryCall

SpecEntry == Init /\ [][EntryNext]_vars

SpiOnly ==
    UNCHANGED << cpsr_i, timerVars, nowVars, execVars, csVars, gpioVars, auxVars,
                 detVars, readVars, entryVars, bootVars, wakerVars, macroVars,
                 runVars, irqVars, gisrVars, rexVars, xferVars, halfVars, cfgVars,
                 pullVars >>

SpiNext ==
    \/ SpiOnly /\ \E n \in 1 .. MaxWords, async \in BOOLEAN, msb \in BOOLEAN :
                      SpiWriteCall(n, async, msb)
    \/ SpiOnly /\ SpiBlockingStep
    \/ SpiOnly /\ SpiPollStep
    \/ SpiOnly /\ SpiRepoll
    \/ SpiOnly /\ SpiReturn

SpecSpi == Init /\ [][SpiNext]_vars

BootOnly ==
    UNCHANGED << cpsr_i, timerVars, nowVars, execVars, csVars, gpioVars, auxVars,
                 detVars, readVars, entryVars, spiVars, wakerVars, macroVars, runVars,
                 irqVars, gisrVars, rexVars, xferVars, halfVars, cfgVars, pullVars >>

\* The steps of the device and of the host tool.
BootDev ==
    \/ BootOnly /\ \E fw \in {"bin", "crate"} : DevBoot(fw)
    \/ BootOnly /\ DevSendReady
    \/ BootOnly /\ DevReadSize
    \/ BootOnly /\ DevLoadByte

BootHost ==
    \/ BootOnly /\ HostRead
    \/ BootOnly /\ HostTimeout
    \/ BootOnly /\ \E bin \in Binaries : HostSendSize(bin)
    \/ BootOnly /\ HostSendPayload

BootNext ==
    \/ BootDev
    \/ BootHost
    \/ BootOnly /\ \E b \in GlitchBytes : HwLineGlitch(b)

SpecBoot == Init /\ [][BootNext]_vars

\* The device runs; the host tool runs.
SpecBootFair == SpecBoot /\ WF_vars(BootDev) /\ WF_vars(BootHost)

WakerOnly ==
    UNCHANGED << cpsr_i, timerVars, nowVars, execVars, csVars, gpioVars, auxVars,
                 detVars, readVars, entryVars, spiVars, bootVars, macroVars, runVars,
                 irqVars, gisrVars, rexVars, xferVars, halfVars, cfgVars, pullVars >>

WakerNext ==
    \/ WakerOnly /\ \E waker_ref \in WakerRefs : set_waker(waker_ref)
    \/ WakerOnly /\ wake

SpecWaker == Init /\ [][WakerNext]_vars

MacroOnly ==
    UNCHANGED << cpsr_i, timerVars, nowVars, execVars, csVars, gpioVars, auxVars,
                 detVars, readVars, entryVars, spiVars, bootVars, wakerVars, runVars,
                 irqVars, gisrVars, rexVars, xferVars, halfVars, cfgVars, pullVars >>

MacroNext ==
    \/ MacroOnly /\ \E args \in BOOLEAN, item \in Items : MainExpand(args, item)

SpecMacro == Init /\ [][MacroNext]_vars

RunOnly ==
    UNCHANGED << timerVars, nowVars, csVars, gpioVars, auxVars, detVars, readVars,
                 entryVars, spiVars, bootVars, wakerVars, macroVars, irqVars,
                 gisrVars, rexVars, xferVars, halfVars, cfgVars, pullVars >>

RunNext ==
    \/ RunOnly /\ RunReset
    \/ RunOnly /\ RunFirstStage
    \/ RunOnly /\ \E enable \in BOOLEAN : RunMain(enable)
    \/ RunOnly /\ RunPlain(ExecIrqRaise)
    \/ RunOnly /\ RunPlain(ExecIrqEntry)
    \/ RunOnly /\ \E woken \in SUBSET Tasks : RunWaking(ExecIsrBody(woken), woken)
    \/ RunOnly /\ RunPlain(ExecIrqReturn)
    \/ RunOnly /\ RunPlain(ExecPollBegin)
    \/ RunOnly /\ \E t \in Tasks, woken \in SUBSET Tasks :
                     RunWaking(ExecPollTask(t, woken), woken)
    \/ RunOnly /\ RunPlain(ExecAcquire)
    \/ RunOnly /\ RunSwap
    \/ RunOnly /\ RunPlain(ExecWfi)
    \/ RunOnly /\ RunRelease

SpecRun == Init /\ [][RunNext]_vars

IrqOnly ==
    UNCHANGED << timerVars, nowVars, execVars, csVars, gpioVars, auxVars, detVars,
                 readVars, entryVars, spiVars, bootVars, wakerVars, macroVars,
                 runVars, gisrVars, rexVars, xferVars, halfVars, cfgVars, pullVars >>

IrqNext ==
    \/ IrqOnly /\ \E n \in IrqNumbers : HwRaise(n)
    \/ IrqOnly /\ DispEntry
    \/ IrqOnly /\ DispReadBasic
    \/ IrqOnly /\ \E bank \in 1..2 : DispReadWord(bank)
    \/ IrqOnly /\ \E bank \in 1..2 : DispSource(bank)
    \/ IrqOnly /\ HandlerAck
    \/ IrqOnly /\ HandlerAcquire
    \/ IrqOnly /\ HandlerRelease
    \/ IrqOnly /\ HandlerReturn
    \/ IrqOnly /\ DispReturn

SpecIrq == Init /\ [][IrqNext]_vars

GisrOnly ==
    UNCHANGED << cpsr_i, timerVars, nowVars, execVars, csVars, gpioVars, auxVars,
                 detVars, readVars, entryVars, spiVars, bootVars, wakerVars,
                 macroVars, runVars, irqVars, rexVars, xferVars, halfVars, cfgVars,
                 pullVars >>

GisrNext ==
    \/ GisrOnly /\ \E pin \in DetPins, state \in DetectStates : DetectorArm(pin, state)
    \/ GisrOnly /\ \E pin \in DetPins : HwDetect(pin)
    \/ GisrOnly /\ \E bank \in 0..1 : GpioInterruptHandler(bank)

SpecGisr == Init /\ [][GisrNext]_vars

RexOnly ==
    UNCHANGED << cpsr_i, timerVars, nowVars, execVars, csVars, gpioVars, auxVars,
                 detVars, rdPc, buf, count, rdRet, rdTaken, rdStatus, entryVars,
                 spiVars, bootVars, wakerVars, macroVars, runVars, irqVars,
                 gisrVars, xferVars, halfVars, cfgVars, pullVars >>

RexNext ==
    \/ RexOnly /\ \E len \in 1..MaxBuf : ReadExactCall(len)
    \/ RexOnly /\ ReadExactPoll
    \/ RexOnly /\ ReadExactDone
    \/ RexOnly /\ HwLineByte /\ UNCHANGED rexVars

SpecRex == Init /\ [][RexNext]_vars

XferOnly ==
    UNCHANGED << cpsr_i, timerVars, nowVars, execVars, csVars, gpioVars, auxVars,
                 detVars, readVars, entryVars, spiVars, bootVars, wakerVars,
                 macroVars, runVars, irqVars, gisrVars, rexVars, halfVars, pullVars >>

XferNext ==
    \/ XferOnly /\ \E config \in SpiConfigs : SpiGet(config) /\ UNCHANGED xferVars
    \/ XferOnly /\ SpiDrop /\ UNCHANGED xferVars
    \/ XferOnly /\ \E n \in 1..MaxWords, async \in BOOLEAN :
                       XferCall(n, async) /\ ReadInOrder
    \/ XferOnly /\ HwSpiShift /\ UNCHANGED cfgVars
    \/ XferOnly /\ XferBlockingWrite /\ UNCHANGED cfgVars
    \/ XferOnly /\ XferBlockingRead /\ UNCHANGED cfgVars
    \/ XferOnly /\ XferPollRx /\ UNCHANGED cfgVars
    \/ XferOnly /\ XferPollTx /\ UNCHANGED cfgVars
    \/ XferOnly /\ XferRepoll /\ ReadInOrder
    \/ XferOnly /\ XferReturn /\ UNCHANGED cfgVars

SpecXfer == Init /\ [][XferNext]_vars

HalfOnly ==
    UNCHANGED << cpsr_i, timerVars, nowVars, execVars, csVars, gpioVars, auxVars,
                 detVars, readVars, entryVars, spiVars, bootVars, wakerVars,
                 macroVars, runVars, irqVars, gisrVars, rexVars, xferVars, cfgVars,
                 pullVars >>

HalfNext ==
    \/ HalfOnly /\ ReaderGet
    \/ HalfOnly /\ WriterGet
    \/ HalfOnly /\ ReaderDrop
    \/ HalfOnly /\ WriterDrop
    \/ HalfOnly /\ \E t \in HalfTasks : HalfReadPoll(t)
    \/ HalfOnly /\ \E t \in HalfTasks, len \in {1, FIFO_SIZE} : HalfWritePoll(t, len)
    \/ HalfOnly /\ \E t \in HalfTasks : HalfFlushPoll(t)
    \/ HalfOnly /\ HalfNbFlush
    \/ HalfOnly /\ HalfFlushSpin
    \/ HalfOnly /\ HalfReaderIsr
    \/ HalfOnly /\ HalfWriterIsr
    \/ HalfOnly /\ HwHalfSend
    \/ HalfOnly /\ HwHalfReceive

SpecHalf == Init /\ [][HalfNext]_vars

PullOnly ==
    UNCHANGED << cpsr_i, timerVars, nowVars, execVars, csVars, gpioVars, auxVars,
                 detVars, readVars, entryVars, spiVars, bootVars, wakerVars,
                 macroVars, runVars, irqVars, gisrVars, rexVars, xferVars, halfVars,
                 cfgVars >>

PullNext ==
    \/ PullOnly /\ \E pin \in DetPins, pull \in {"Up", "Down", "None"} :
                       SetPullCall(pin, pull)
    \/ PullOnly /\ SetPullSpin
    \/ PullOnly /\ SetPullMask
    \/ PullOnly /\ SetPullClear
    \/ PullOnly /\ SetPullReturn

SpecPull == Init /\ [][PullNext]_vars

\* ---- claims about the executor, the GPIO tokens and the critical section
\* C1: no lost wake-up in Executor::run.  The executor is never in WFI with a
\* task in the run queue or WORK_SIGNALED set (a wake-up before the swap makes
\* the swap observe true and WFI is skipped; inside the critical section no
\* handler can wake), and every task put in the run queue, by a poll or by an
\* interrupt handler, is taken by a later poll.
C1_NoLostWakeup ==
    /\ [](epc = "wfi" => (runQueue = {} /\ ~WORK_SIGNALED))
    /\ \A t \in Tasks : (t \in runQueue) ~> (t \in batch)

\* C1 witness: the executor slept in WFI, the interrupt that ended the WFI
\* woke a task after the release, and the executor is polling that task.
C1_Witness == slept /\ epc = "polling" /\ batch # {} /\ ~cpsr_i

\* C2: Pin::get returns a token if and only if no token for the pin is live,
\* so at most one token per pin is live.
C2_ExclusivePin ==
    /\ \A p \in Pins : tokens[p] <= 1
    /\ lastGet.ev => (lastGet.some = ~lastGet.held)

\* C3: for properly nested acquire/release calls, IRQs are masked while a
\* section is open and no IRQ is taken inside one, every inner acquire
\* returned false, and after the outermost release the I-bit equals its
\* value before the outermost acquire.
C3_NestedCriticalSection ==
    /\ \A c \in Ctx : csStack[c] # << >> => cpsr_i
    /\ \A c \in Ctx : \A k \in 2..Len(csStack[c]) : ~csStack[c][k]
    /\ csExit.ev => (csExit.after = csExit.before)
    /\ ~csIrq

\* C3 witness: a section entered with IRQs already masked, with a section
\* nested inside it, has just been left, IRQs still masked.
C3_Witness == csExit.ev /\ csExit.before /\ csExit.nested /\ cpsr_i

\* ---- claims about the time driver

\* The latest step was a call of allocate_alarm, whose result r records.
IsAlloc(r) == "alloc" \in DOMAIN r

\* C11: allocate_alarm returns id 0 if slot C1 is free, else id 1 if slot C3
\* is free, else none (2); on success the chosen slot becomes allocated with
\* timestamp 0 and the no-op callback and the other slot is unchanged; on
\* none both slots are unchanged.
C11_AllocateFirstFree ==
    [][IsAlloc(lastCall') =>
         /\ (slot[0] = None) => lastCall'.alloc = 0
         /\ (slot[0] # None /\ slot[1] = None) => lastCall'.alloc = 1
         /\ (slot[0] # None /\ slot[1] # None) => lastCall'.alloc = 2
         /\ \A h \in Handles :
               slot'[h] = IF lastCall'.alloc = h THEN [timestamp |-> 0, callback |-> "noop"]
                          ELSE slot[h]]_vars

\* C11 witness: allocate_alarm has just returned id 1 while slot C1 holds a
\* registered callback.
C11_Witness ==
    /\ IsAlloc(lastCall) /\ lastCall.alloc = 1
    /\ slot[0] # None /\ slot[0].callback = "cb"
    /\ slot[1] = [timestamp |-> 0, callback |-> "noop"]

\* Handle h holds an alarm that set_alarm accepted and that has not fired.
Waiting(h) ==
    /\ lastRet[h] = "true" /\ cbSince[h] = 0
    /\ slot[h] # None /\ slot[h].callback = "cb"

\* C4: a set_alarm that returned true has its callback invoked eventually.
\* Stated in the form a finite run refutes: a panic is final (the panic
\* handler never returns), so an alarm that was accepted and has not fired
\* yet is never found in a halted system.
C4_AcceptedAlarmFires == \A h \in Handles : Waiting(h) => ~halted

\* C5: when set_alarm returned false through the race path, the callback was
\* not invoked for that call (counted from the moment the call stored its
\* deadline in the slot).
C5_FalseMeansNoCallback ==
    \A h \in Handles : lastRet[h] = "false_race" => cbSince[h] = 0

C7_ExactlyOnce ==
    \A h \in Handles : lastRet[h] = "true" => cbSince[h] <= 1

\* C8: the callback is never invoked while now() is below the 64-bit deadline
\* the ISR read from the slot.
C8_NeverBeforeDeadline == lastCb.ev => lastCb.ts <= lastCb.at

\* C8 witness: an alarm accepted with a deadline more than one wrap of the low
\* word ahead has just fired, at or after its deadline.
C8_Witness == lastCb.ev /\ lastCb.far /\ lastCb.ts > 0 /\ lastCb.ts <= lastCb.at

\* C9: of two accepted alarms on the two handles, the one with the earlier
\* deadline has its callback invoked first.
C9_DeadlineOrder == lastCb.ev => ~lastCb.before

\* C10: now() returns the value the 64-bit counter had at the instant of the
\* low-word read it used, which lies within the call, and successive results
\* are non-decreasing, whatever ticks fall between the three register reads.
C10_NowConsistentMonotone ==
    nowRet.ev =>
        /\ nowRet.val = nowRet.lo
        /\ nowRet.call <= nowRet.val
        /\ nowRet.val <= nowRet.ret
        /\ nowRet.prev <= nowRet.val

\* C10 witness: a call during which the low word wrapped between the two
\* reads of CHI, so that it retried, has returned after an earlier call.
C10_Witness == nowRet.ev /\ nowRet.retried /\ nowRet.prev > 0

\* ---- claims about boot and the Mini-UART

\* C12: MiniUart::get returns an instance if and only if no instance is
\* live; in particular the first get after boot succeeds.
C12_UartGetIffNoneLive ==
    lastUartGet.ev => (lastUartGet.some = ~lastUartGet.live)

\* C13: a read future that returned Pending (waker stored, receive interrupt
\* enabled) is woken and polled again once a byte has arrived, in a system
\* that has not panicked.
C13_PendingReadIsWoken ==
    (futState = "pending" /\ rxReady /\ ~auxHalted) ~> (futState # "pending")

C14_ReadyOnOwnEvent == lastDet.ev => lastDet.own

\* ---- claims about the function-select registers

\* The bit positions at which the ten 3-bit fields of a word start.
FieldShifts == {3 * i : i \in 0 .. 9}

\* C15: after Pin::<P, MODE>::get() the 3-bit field at bit (P mod 10)*3 of
\* function-select word P div 10 holds MODE's code (input 000, output 001,
\* ALT0..ALT5 = 100, 101, 110, 111, 011, 010); every other bit of that word
\* and every other function-select word keep their value.
C15_FselField ==
    [][lastGet'.ev /\ lastGet'.some =>
        LET P == lastGet'.pin
            code == [Input |-> 0, Output |-> 1, Alternate0 |-> 4, Alternate1 |-> 5,
                     Alternate2 |-> 6, Alternate3 |-> 7, Alternate4 |-> 3,
                     Alternate5 |-> 2]
        IN  /\ MODE_BITS = code
            /\ Field(fsel'[P \div 10], (P % 10) * 3) = code[lastGet'.type]
            /\ \A sh \in FieldShifts \ {(P % 10) * 3} :
                   Field(fsel'[P \div 10], sh) = Field(fsel[P \div 10], sh)
            /\ fsel'[P \div 10] \div 2^30 = fsel[P \div 10] \div 2^30
            /\ \A w \in FselWords \ {P \div 10} : fsel'[w] = fsel[w]]_vars

\* C15 witness: pins 31 and 32 share word 3; pin 32 was just set back to
\* Input (000 at bit 6) while pin 31 keeps Alternate5 (010 at bit 3).
C15_Witness ==
    /\ lastGet.ev /\ lastGet.pin = 32 /\ lastGet.type = "Input"
    /\ tokens[32] = 2
    /\ fsel[3] = 2 * 8

\* C16: Pin::get is rejected by its assertion only for pin numbers greater
\* than 53; every pin number 0 through 53 is accepted.
C16_RejectedOnlyAbove53 == "rejected" \in DOMAIN lastGet => lastGet.rejected > 53

\* ---- claims about the blocking read

\* C18: blocking Reader::read into a non-empty buffer never returns Ok(0);
\* it returns Ok(n), 1 <= n <= len, only after storing the first n received
\* bytes in FIFO order into buf[0..n], with n < len only when the latest
\* status read showed no byte ready; it returns Err(Overrun) as soon as a
\* status read shows the overrun bit, and only then.
C18_BlockingRead ==
    /\ (rdPc = "done" /\ rdRet.kind = "ok" /\ Len(buf) > 0) =>
          /\ 1 <= rdRet.n /\ rdRet.n <= Len(buf)
          /\ Len(rdTaken) = rdRet.n
          /\ \A i \in 1 .. rdRet.n : buf[i] = rdTaken[i]
          /\ \A i \in 1 .. rdRet.n - 1 : rdTaken[i] < rdTaken[i + 1]
          /\ rdRet.n < Len(buf) => ~rdStatus.ready
          /\ ~rdStatus.ovr
    /\ (rdPc = "done" /\ rdRet.kind = "err") => rdStatus.ovr
    /\ rdPc = "loop" => ~rdStatus.ovr /\ Len(rdTaken) = count /\ count < Len(buf)

\* C18 witness: a read into three bytes returned Ok(2) with the two bytes
\* in order, after the line went quiet.
C18_Witness ==
    /\ rdPc = "done" /\ rdRet = [kind |-> "ok", n |-> 2]
    /\ Len(buf) = 3 /\ buf[1] < buf[2] /\ buf[1] > 0 /\ rxFifo = << >>

\* ---- claims about the SPI FIFO entries

\* C20: to_entry of a chunk of k bytes, 1 <= k <= 3, yields an entry whose
\* upper 8 bits equal the shift count 8*k and whose lower 24 bits hold
\* exactly the payload bytes (first byte lowest when the least significant
\* bit goes first, first byte highest of the k bytes otherwise), no payload
\* bit in the upper 8 bits.
C20_EntryLayout ==
    lastEntry.ev =>
        LET k == Len(lastEntry.slice)
            e == lastEntry.entry
        IN  /\ e[3] = 8 * k
            /\ \A i \in 0 .. k - 1 :
                   e[IF lastEntry.ms_bit_first THEN k - 1 - i ELSE i]
                       = lastEntry.slice[i + 1]
            /\ \A l \in k .. 2 : e[l] = 0

\* ---- claims about the SPI write

\* C19: a finished SPI write of n >= 1 bytes, blocking or async, has put
\* exactly ceil(n/3) entries into the TX FIFO in byte order, every entry
\* but the last through TXHOLD and the last through IO, each written after
\* a read of STATUS showed bit 10 (TX-full) clear.
C19_WriteFillsTxFifo ==
    spiPc = "done" =>
        /\ Len(txFifo) = (Len(words) + 2) \div 3
        /\ \A i \in 1 .. Len(txFifo) :
              /\ txFifo[i].chunk = i
              /\ txFifo[i].reg = IF i = Len(txFifo) THEN "IO" ELSE "TXHOLD"
              /\ txFifo[i].sawClear

\* ---- claims about the serial boot

\* C21: the device sends 0xFF exactly once and before it reads anything;
\* the host writes nothing until it has read one byte and that byte is
\* 0xFF, and on another first byte or a read failure it aborts without
\* sending the size or the payload.
C21_Handshake ==
    /\ [](ffSent <= 1)
    /\ [](devReads > 0 => ffSent = 1)
    /\ [](hostWire # << >> => ready_buf = 255)
    /\ [](hostPc = "aborted" => hostWire = << >>)
    /\ (devPc # "off" ~> ffSent = 1)

\* C22: for a binary of N bytes the host sends the 4 little-endian bytes of
\* N and then the N bytes; the device decodes N, stores byte i at load
\* address + i in arrival order, reads no byte beyond the N-th and calls
\* the loaded image only after all N bytes are stored.
C22_SizeThenPayload ==
    /\ hostPc = "sent" =>
          hostWire = << Len(binary) % 256, (Len(binary) \div 256) % 256,
                        (Len(binary) \div 65536) % 256,
                        (Len(binary) \div 16777216) % 256 >> \o binary
    /\ devPc \in {"load", "kernel"} =>
          /\ binary_size + Len(loaded) = Len(binary)
          /\ loaded = SubSeq(binary, 1, Len(loaded))
          /\ devReads = 4 + Len(loaded)
    /\ devPc = "kernel" => loaded = binary /\ binary_size = 0

\* C22 witness: the device called an image of three bytes, all stored.
C22_Witness == devPc = "kernel" /\ Len(loaded) = MaxBinary /\ loaded = binary /\ toDev = << >>

\* ---- claims about the waker cells

\* C23: set_waker leaves the slot holding a waker of the caller's task (the
\* stored one if it already wakes the same task, else a clone of the new
\* one) and returns true iff the slot was non-empty before; wake empties
\* the slot and invokes the removed waker, a stored waker is invoked at most
\* once, and wake on an empty slot does nothing.
C23_WakerCell ==
    /\ lastW.op = "set" =>
          /\ wslot # None
          /\ wslot.task = lastW.waker.task /\ wslot.data = lastW.waker.data
          /\ lastW.ret = (lastW.before # None)
          /\ IF lastW.before # None /\ lastW.before.task = lastW.waker.task
                /\ lastW.before.data = lastW.waker.data
             THEN wslot = lastW.before
             ELSE wslot.id = clones /\ invoked[wslot.id] = 0
    /\ lastW.op = "wake" =>
          /\ wslot = None
          /\ IF lastW.before # None
             THEN invoked = [lastW.invoked EXCEPT ![lastW.before.id] = 1]
             ELSE invoked = lastW.invoked
    /\ \A i \in DOMAIN invoked : invoked[i] <= 1

\* C23 witness: wake invoked a waker that replaced the waker of another
\* task, which was never invoked.
C23_Witness ==
    /\ lastW.op = "wake" /\ lastW.before # None /\ lastW.before.id = 2
    /\ invoked[2] = 1 /\ invoked[1] = 0

\* ---- claims about the #[main] macro

\* C24: #[main] accepts an item iff the attribute has no arguments and the
\* item is a function that is not async, not unsafe, has no explicit ABI,
\* no generic parameters, no parameters, is not variadic and returns `!`;
\* an accepted function is emitted unchanged except that it is exported as
\* `_main`.
C24_MainAccepts ==
    lastMain.ev =>
        LET f == lastMain.item
        IN  /\ lastMain.result.ok <=>
                  /\ ~lastMain.args /\ f.is_fn
                  /\ ~f.asyncness /\ ~f.unsafety /\ ~f.abi /\ ~f.generic_params
                  /\ ~f.inputs /\ ~f.variadic /\ f.output = "never"
            /\ lastMain.result.ok =>
                  /\ lastMain.result.export_name = "_main"
                  /\ lastMain.result.emitted = f

\* ---- claims about Executor::run
\* C25: in Executor::run WFI is executed only if the swap of that iteration
\* returned false; from the swap to the end of the WFI IRQs are masked and no
\* interrupt handler runs; when the swap returned true the iteration reaches
\* the release without having slept; and after a swap WORK_SIGNALED is false
\* until the next call of __pender.
C25_SwapThenWfi ==
    /\ epc = "wfi" => ~swapOld
    /\ epc \in {"swap", "wfi", "release"} => (cpsr_i /\ isrPc = "none")
    /\ (epc = "release" /\ swapOld) => ~slept
    /\ (epc = "release" /\ ~swapOld) => slept
    /\ (swapped /\ ~pendedSince) => ~WORK_SIGNALED

\* C25 witness: both branches were taken.  The swap of this iteration returned
\* true and WFI was skipped, after an iteration that slept in WFI and whose
\* interrupt woke a task.
C25_Witness ==
    /\ epc = "release" /\ swapOld /\ ~slept /\ released /\ irqCount > 0
    /\ ~WORK_SIGNALED

\* C26: in every iteration of Executor::run, after the critical section is
\* left and before the next poll, IRQs are unmasked, also when run was
\* entered with IRQs masked.
C26_UnmaskedEachIteration ==
    (runPc = "run" /\ released /\ epc = "poll" /\ isrPc = "none") => ~cpsr_i

\* ---- claims about the interrupt dispatch
\* C27: when interrupt_handler is done with an IRQ entry, the handler of each
\* table entry was invoked once if the summary bit of its bank (8 for pending
\* register 1, 9 for pending register 2) was set in the IRQ_BASIC_PENDING
\* read and its own bit was set in the pending word read, and was not invoked
\* otherwise; no other pending bit invoked anything.
C27_DispatchByPendingBits ==
    dpc = "ret" =>
        /\ calls[1] = IF 8 \in basic_pending /\ 1 \in wordRead[1] THEN 1 ELSE 0
        /\ calls[3] = IF 8 \in basic_pending /\ 3 \in wordRead[1] THEN 1 ELSE 0
        /\ calls[49] = IF 9 \in basic_pending /\ 17 \in wordRead[2] THEN 1 ELSE 0
        /\ calls[50] = IF 9 \in basic_pending /\ 18 \in wordRead[2] THEN 1 ELSE 0
        /\ DOMAIN calls = {1, 3, 49, 50}

\* C27 witness: a dispatch that invoked one handler of each bank and left the
\* other out, with a pending bit of no table entry (the UART, IRQ 57) in the
\* word read.
C27_Witness ==
    /\ dpc = "ret"
    /\ calls[1] = 0 /\ calls[3] = 1 /\ calls[49] = 1 /\ calls[50] = 0
    /\ 25 \in wordRead[2]

\* C28: from IRQ entry until interrupt_handler returns IRQs are masked,
\* through every critical section a handler opens and closes, and no IRQ is
\* taken while interrupt_handler runs.
C28_MaskedDuringDispatch ==
    /\ dpc # "idle" => cpsr_i
    /\ ~reentered

\* C28 witness: a handler that acknowledged its source is inside two nested
\* critical sections while another enabled source is pending.
C28_Witness ==
    /\ hact # {} /\ Len(hcs) = MaxNest /\ cpsr_i
    /\ (srcPending \ hact) \cap IrqsEnabled # {}
    /\ hact \cap srcPending = {}

\* ---- claims about the alarm slots and the control/status register
\* C29: the slot of a channel is non-empty whenever set_alarm is about to take
\* it (a handle the client got from allocate_alarm) and whenever the compare
\* ISR of the channel is about to read it, so that neither
\* expect("Alarm should be set") panics.
C29_SlotSetAtExpect ==
    \A k \in 1..Len(frames) :
        (/\ frames[k].h \in handles
         /\ \/ frames[k].fn = "set_alarm" /\ frames[k].pc = "store"
            \/ frames[k].fn = "isr" /\ frames[k].pc = "ack")
        => slot[frames[k].h] # None

\* C30: a write to the control/status register by the ISR entry or by the
\* race path of set_alarm, done for one channel, clears no match flag but
\* that channel's: a flag that is cleared in a step is the flag of the
\* channel the running code handles.
C30_ClearsOwnFlagOnly ==
    [][\A g \in Handles :
          (csr[g] /\ ~csr'[g]) => (frames # << >> /\ frames[Len(frames)].h = g)]_vars

\* ---- claims about the GPIO interrupt handlers
\* C31: after the GPIO handler of a bank ran, every pin of the bank whose
\* status bit was set has no detect-enable bit, a clear status bit and an
\* empty waker slot, and its waker was woken if one was stored; enable bits,
\* status bit and waker slot of every other pin are as before, and no other
\* waker was woken.
C31_GpioIsrPerPin ==
    lastGpioIsr.ev =>
        \A q \in DetPins :
            IF q \div 32 = lastGpioIsr.bank /\ q \in lastGpioIsr.status
            THEN /\ detectEnable[q] = {}
                 /\ q \notin detectStatus
                 /\ WAKER_SET[q] = 0
                 /\ (q \in lastGpioIsr.woken) = (lastGpioIsr.wakers[q] # 0)
            ELSE /\ detectEnable[q] = lastGpioIsr.enable[q]
                 /\ (q \in detectStatus) = (q \in lastGpioIsr.status)
                 /\ WAKER_SET[q] = lastGpioIsr.wakers[q]
                 /\ q \notin lastGpioIsr.woken

\* ---- claims about the async read_exact
\* C32: when the read_exact future completes with Ok, the buffer holds, at
\* every index, the byte taken from the receive FIFO at that position of the
\* sequence of bytes taken, and as many bytes were taken as the buffer is long.
C32_ReadExactFillsBuffer ==
    exPc = "ok" =>
        /\ Len(exTaken) = Len(exBuf)
        /\ \A i \in 1..Len(exBuf) : i <= Len(exTaken) /\ exBuf[i] = exTaken[i]

\* C33: the async transfer_in_place exchanges the same entries as the
\* blocking one: what it has written is always a prefix of the blocking
\* entries (the last through IO, the others through TXHOLD), and when it
\* returns it has written exactly ceil(n / 3) entries and read back as many,
\* also when n is a multiple of 3.
C33_AsyncSameEntries ==
    LET want == BlockingEntries([i \in 1..Len(xfWords) |-> i]) IN
    /\ Len(xfSent) <= Len(want)
    /\ \A k \in 1..Len(xfSent) : k <= Len(want) => xfSent[k] = want[k]
    /\ xfPc = "done" =>
        /\ Len(xfSent) = (Len(xfWords) + 2) \div 3
        /\ xfReads = Len(xfSent)

\* C34: Reader::get fails only when a Reader is live and Writer::get only
\* when a Writer is live, so that one of each can be held together; two
\* Readers or two Writers are never live; a drop leaves the other half's
\* enable bit as it was.
C34_HalvesIndependent ==
    /\ lastHalf.op = "reader_get" => (lastHalf.some <=> lastHalf.readers = 0)
    /\ lastHalf.op = "writer_get" => (lastHalf.some <=> lastHalf.writers = 0)
    /\ readersLive <= 1 /\ writersLive <= 1
    /\ lastHalf.op = "reader_drop" => (1 \in controlReg <=> 1 \in lastHalf.before)
    /\ lastHalf.op = "writer_drop" => (0 \in controlReg <=> 0 \in lastHalf.before)

\* C35: a read poll that returns Pending leaves the polling task's waker in
\* the reader cell and bits 0, 2 and 3 of INTERRUPT_ENABLE_REG set; a write
\* or flush poll that returns Pending leaves it in the writer cell with bits
\* 1, 2 and 3 set; a handler clears the enable bit of its source only, and
\* bits 2 and 3 stay set.
C35_PendingArmsInterrupt ==
    /\ (lastHalf.op = "read_poll" /\ lastHalf.pending) =>
        (readerCell = lastHalf.task /\ {0, 2, 3} \subseteq enableReg)
    /\ (lastHalf.op \in {"write_poll", "flush_poll"} /\ lastHalf.pending) =>
        (WRITER_WAKER = lastHalf.task /\ {1, 2, 3} \subseteq enableReg)
    /\ lastHalf.op = "isr" =>
        (enableReg = lastHalf.before \ {lastHalf.bit} /\ {2, 3} \subseteq enableReg)

\* A handler of the receive interrupt has run, woken a task and left the
\* enable bit of the transmit interrupt set.
C35_Witness ==
    /\ lastHalf.op = "isr" /\ lastHalf.bit = 0 /\ lastHalf.woke # 0
    /\ 1 \in enableReg

\* C36: with the transmit FIFO drained, the blocking flush returns, the
\* non-blocking flush returns Ok and the FlushFut is Ready.
C36_FlushReturnsWhenDrained ==
    /\ (lastHalf.op \in {"flush", "nb_flush"} /\ lastHalf.level = 0) => lastHalf.ok
    /\ (lastHalf.op = "flush_poll" /\ lastHalf.level = 0) => ~lastHalf.pending

\* C37: for every baud rate set_baud_rate accepts, 8 * baud_rate does not
\* wrap, the subtraction of 1 does not go below zero, and the value written
\* to the baud register lies in 0..65535.
C37_BaudRegisterFits ==
    (lastBaud.ev /\ ~lastBaud.panicked) =>
        /\ Mul8U32(lastBaud.b) = 8 * lastBaud.b
        /\ CLOCK_SPEED \div Mul8U32(lastBaud.b) >= 1
        /\ baudReg >= 0 /\ baudReg <= 65535

\* C38: from_entry of to_entry(chunk, order), with the same order and a
\* slice of the chunk's length, restores exactly the bytes of the chunk.
C38_EntryRoundTrip ==
    (lastEntry.ev /\ "back" \in DOMAIN lastEntry) => lastEntry.back = lastEntry.slice

\* C39: while a transfer_in_place runs, blocking or async, the order it
\* decodes received entries with is the Config.in_most_significant_first
\* the Spi1 value was obtained with, whatever Config.keep_input is.
C39_DecodeOrderFromConfig ==
    xfPc # "idle" => in_ms_bit_first = spiConfig.in_most_significant_first

\* C40: set_pull writes the pull code to PULL_CONTROL, waits, writes the pin
\* mask to the PULL_SET word of the pin's bank, waits, then clears PULL_SET
\* and PULL_CONTROL: the mask is never written before the first wait has
\* elapsed, and on return both registers hold zero.
C40_SetPullOrder ==
    /\ \A k \in 1..Len(pullLog) :
           pullLog[k].reg = "PULL_SET" =>
               (k = 3 /\ pullLog[1].reg = "PULL_CONTROL" /\ pullLog[2].reg = "wait")
    /\ pullPc = "done" =>
        /\ Len(pullLog) >= 5
        /\ pullLog[4].reg = "wait"
        /\ PULL_CONTROL = 0
        /\ \A bank \in 0..1 : PULL_SET[bank] = {}

=============================================================================
